---- MODULE Spec2Model ----
(***************************************************************************)
(* Closure service worker (background.js v1.4.0): the tab-lifecycle        *)
(* orchestrator.  Handlers are async functions; every `await` on a         *)
(* chrome.* call is a suspension point at which other handlers, the user   *)
(* and the browser may act.  One action below is one handler segment: the  *)
(* completion of the awaited call together with the synchronous code that  *)
(* follows it up to the next awaited chrome.* call.                        *)
(*                                                                         *)
(* Time is counted in hours.  Hosts are sequences of labels, titles are    *)
(* sequences of lower-cased words.                                         *)
(***************************************************************************)
EXTENDS Integers, Sequences, FiniteSets, TLC

\* ------------------------------------------------------------------ bounds
NumRuns == 2          \* archival handler invocations that may be in progress at once
MaxRestarts == 1      \* service-worker terminations explored
MaxGroups == 2         \* tab groups the browser creates
MaxUserEvents == 1    \* user/browser events (pin, audio, close, touch, settings) explored
MaxRouted == 2        \* alarms and messages delivered to the router
MaxSettingsEvents == 2 \* uses of the settings page (save, clear, zeroize) explored

\* ------------------------------------------------------- program constants
STUCK_TAB_THRESHOLD_H == 1
NUCLEAR_IDLE_HOURS == 4
RAM_PER_TAB_MB == 50
SWEEP_RAM_MB == 50
DEFAULT_IDLE_THRESHOLD_HOURS == 24
DEFAULT_GROUP_THRESHOLD == 3
DEFAULT_TOPIC_GROUPING_INTERVAL == 120
OVERNIGHT_PERIOD == 1440

SWEEP_ALARM_NAME == <<"dead-end-sweeper", 0>>
BADGE_CLEAR_ALARM == <<"clear-sweep-badge", 0>>
IDLE_CHECK_ALARM == <<"idle-tab-check", 0>>
SnoozeAlarm(tabId) == <<"snooze-", tabId>>
TOPIC_GROUPING_ALARM == <<"topic-grouping", 0>>
\* the name the collapse alarm of a group bore in version 1.2.0
CollapseAlarm(groupId) == <<"collapse-group-", groupId>>

\* ------------------------------------------------------------------ helpers
NoDomain == <<>>

LastN(s, n) == SubSeq(s, Len(s) - n + 1, Len(s))

MULTI_PART_TLDS == { <<"co", "uk">>, <<"com", "au">>, <<"co", "jp">> }

\* a grouping key that keeps the subdomain
WholeHostname(hostname) == hostname

getRegistrableDomain(hostname) ==
  LET host == IF Len(hostname) > 0 /\ hostname[1] = "www" THEN Tail(hostname) ELSE hostname
  IN  IF Len(host) <= 2 THEN host
      ELSE IF LastN(host, 2) \in MULTI_PART_TLDS
           THEN (IF Len(host) >= 3 THEN LastN(host, 3) ELSE host)
           ELSE LastN(host, 2)

getRootDomain(url) ==
  IF url.protocol \notin {"http:", "https:"} THEN NoDomain
  ELSE getRegistrableDomain(url.hostname)

\* a title matches a pattern when the pattern's words occur in it contiguously
Contains(title, words) ==
  \E i \in 1..Len(title) :
     /\ i + Len(words) - 1 <= Len(title)
     /\ SubSeq(title, i, i + Len(words) - 1) = words

TITLE_ERROR_PATTERNS ==
  << <<"404">>, <<"500">>, <<"502">>, <<"503">>, <<"timed", "out">>,
     <<"site", "can't", "be", "reached">>, <<"err_">>, <<"dns_probe">>,
     <<"server", "error">>, <<"page", "not", "found">> >>

NoError == [isError |-> FALSE, reason |-> <<>>]

checkTitleForErrors(title) ==
  LET hits == { i \in 1..Len(TITLE_ERROR_PATTERNS) : Contains(title, TITLE_ERROR_PATTERNS[i]) }
  IN  IF hits = {} THEN NoError
      ELSE LET first == CHOOSE i \in hits : \A j \in hits : i <= j
           IN  [isError |-> TRUE, reason |-> <<"Title match:">> \o TITLE_ERROR_PATTERNS[first]]

\* ------------------------------------------------------------------- state
VARIABLES
  tabs,           \* tab provider: tab id -> tab (open, url, title, status, pinned, ...)
  clock,          \* Date.now(), in hours
  config,         \* chrome.storage.local: config
  archived,       \* chrome.storage.local: archived[]
  swept,          \* chrome.storage.local: swept[]
  stats,          \* chrome.storage.local: stats
  alarms,         \* chrome.alarms: names of the pending alarms
  badge,          \* chrome.action badge: 0 is the empty text, n is "+n"
  archivingTabs,  \* the in-memory Set of tab ids being archived
  sweepInProgress,\* the in-memory sweep guard
  runs,           \* invocations of runIdleTabCheck / handleNuclearArchive in progress
  sweep,          \* the invocation of runDeadEndSweep in progress
  groups,         \* chrome.tabGroups: group id -> group (title, collapsed)
  nextGroupId,    \* the id the browser gives the next new group
  settles,        \* invocations of the tabs.onUpdated listener in progress
  topic,          \* the invocation of runTopicGrouping in progress
  schema_version, \* chrome.storage.local: schema_version (0: the key is missing)
  topicPeriod,    \* chrome.alarms: periodInMinutes of the topic-grouping alarm (0: none pending)
  listeners,      \* the events the running service worker has a listener attached for
  inst,           \* the invocation of the onInstalled listener in progress
  resched,        \* the rescheduleTopicGrouping message: "sent", or "get" while the
                  \* scheduleTopicGroupingAlarm it started awaits the config
  restarts,       \* service-worker terminations so far
  userEvents,     \* user/browser events so far
  hist            \* history of the run: what was written, closed, kept (for the properties)

vars == << tabs, clock, config, archived, swept, stats, alarms, badge, archivingTabs,
           sweepInProgress, runs, sweep, groups, nextGroupId, settles, topic,
           schema_version, topicPeriod, listeners, inst, resched,
           restarts, userEvents, hist >>

\* what the start of the service worker and the schedule of topic grouping work on
bootVars == << schema_version, topicPeriod, listeners, inst, resched >>

groupVars == << groups, nextGroupId, settles, topic, bootVars >>

Procs == 1..NumRuns

Url(protocol, hostname) == [protocol |-> protocol, hostname |-> hostname]

Tab(url, title, status, lastAccessed) ==
  [open |-> TRUE, url |-> url, title |-> title, status |-> status,
   pinned |-> FALSE, audible |-> FALSE, lastAccessed |-> lastAccessed, groupId |-> -1]

\* the points of time the model visits: a tab touched at 1 is 10 h old at 11 (stuck
\* if it still loads, idle for the nuclear archive) and 25 h old at 26
ClockPoints == <<1, 11, 26>>

InitialTabs ==
  << Tab(Url("https:", <<"www", "example", "com">>), <<"404", "not", "found">>, "complete", 1),
     Tab(Url("https:", <<"news", "site", "org">>), <<"daily", "news">>, "loading", 1),
     Tab(Url("chrome:", <<"newtab">>), <<"new", "tab">>, "loading", 1) >>

TabIds == DOMAIN tabs

DEFAULT_CONFIG ==
  [groupThreshold |-> DEFAULT_GROUP_THRESHOLD,
   idleThresholdHours |-> DEFAULT_IDLE_THRESHOLD_HOURS,
   whitelist |-> {},
   enableTopicGrouping |-> FALSE,
   topicGroupingIntervalMinutes |-> DEFAULT_TOPIC_GROUPING_INTERVAL,
   topicGroupingOvernightOnly |-> FALSE]

DEFAULT_STATS == [tabsTidiedThisWeek |-> 0, ramSavedEstimate |-> 0]

NoRun == [kind |-> "none", pc |-> "done", todo |-> <<>>, threshold |-> 0,
          data |-> <<>>, dstats |-> DEFAULT_STATS, sum |-> "none", count |-> 0,
          wrote |-> 0]

NoSweep == [pc |-> "done", todo |-> <<>>, data |-> <<>>, dstats |-> DEFAULT_STATS,
            reason |-> <<>>, count |-> 0, wrote |-> 0]

\* a group the browser has just created: no title yet, expanded
NoGroup == [title |-> <<>>, collapsed |-> FALSE]

\* what the listener holds of its tab argument
NoSnap == [url |-> Url("", <<>>), pinned |-> FALSE, groupId |-> -1]

\* stale is history: the group the tab was in when it settled, when that group's
\* title was not the upper-cased domain of the tab (-1 otherwise)
NoSettle == [pc |-> "done", tabId |-> 0, tab |-> NoSnap, threshold |-> 0,
             same |-> {}, gid |-> -1, stale |-> -1]

\* runTopicGrouping between two of its awaits: the candidates (tab ids, in the
\* order of the prompt), the clusters not yet looked at, and the cluster in hand
NoTopic == [pc |-> "done", manual |-> FALSE, todo |-> <<>>, candidates |-> <<>>,
            clusters |-> <<>>, title |-> <<>>, titleIsString |-> TRUE,
            tabIds |-> <<>>, validIds |-> <<>>, gid |-> -1]

\* prevWritten: the tabs whose ArchivedEntry was written in an earlier process
\* lifetime; prompted: the tabs a Stay of Execution notification was shown for;
\* response: the count the last handleNuclearArchive sent back, and the number of
\* entries that run wrote; first, settled: see SettleHist; unhandled: a rejection
\* left the alarm listener with nothing to catch it; sent: what the listener of the
\* runTopicGrouping message last sent back; notified: the tabs a "Tab Archived"
\* notification was created for; expired: the tabs whose snooze alarm has fired;
\* routed: the events delivered to the listeners, each with the handlers it started;
\* sweepDone: the length of sweptTabs at the end of the last runDeadEndSweep, and
\* the number of entries that run wrote;
\* installed: the extension has been installed (onInstalled 'install' was delivered);
\* overwrote: a badge was set while the clear-sweep-badge alarm of an earlier one
\* was pending
NoHist == [archWritten |-> {}, archClosed |-> {}, sweptWritten |-> {}, sweptClosed |-> {},
           kept |-> {}, prevWritten |-> {}, prompted |-> {}, response |-> <<0, 0>>,
           first |-> 0, settled |-> 0, unhandled |-> FALSE, sent |-> "none",
           notified |-> {}, expired |-> {}, overwrote |-> FALSE,
           sweepDone |-> <<0, 0>>, routed |-> <<>>, installed |-> TRUE]

\* the listeners the top level of background.js attaches
TopLevelListeners ==
  { "runtime.onInstalled", "tabs.onCreated", "tabs.onUpdated", "alarms.onAlarm",
    "notifications.onButtonClicked", "notifications.onClosed", "runtime.onMessage" }

\* the onInstalled listener between two of its awaits
NoInst == [pc |-> "done", reason |-> ""]

\* periodInMinutes of the alarm scheduleTopicGroupingAlarm creates
TopicPeriodOf(cfg) ==
  IF cfg.topicGroupingOvernightOnly THEN OVERNIGHT_PERIOD
  ELSE cfg.topicGroupingIntervalMinutes

InitWithConfig(initialTabs, initialConfig) ==
  /\ tabs = initialTabs
  /\ clock = ClockPoints[1]
  /\ config = initialConfig
  /\ archived = <<>>
  /\ swept = <<>>
  /\ stats = DEFAULT_STATS
  /\ alarms = {SWEEP_ALARM_NAME, IDLE_CHECK_ALARM}
              \cup (IF initialConfig.enableTopicGrouping THEN {TOPIC_GROUPING_ALARM} ELSE {})
  /\ topicPeriod = IF initialConfig.enableTopicGrouping THEN TopicPeriodOf(initialConfig)
                   ELSE 0
  /\ schema_version = 1
  /\ listeners = TopLevelListeners
  /\ inst = NoInst
  /\ resched = "done"
  /\ badge = 0
  /\ archivingTabs = {}
  /\ sweepInProgress = FALSE
  /\ runs = [p \in Procs |-> NoRun]
  /\ sweep = NoSweep
  /\ groups = [g \in {} |-> NoGroup]
  /\ nextGroupId = 1
  /\ settles = [p \in Procs |-> NoSettle]
  /\ topic = NoTopic
  /\ restarts = 0
  /\ userEvents = 0
  /\ hist = NoHist

InitWith(initialTabs) == InitWithConfig(initialTabs, DEFAULT_CONFIG)

\* ------------------------------------------------------- tab provider
\* chrome.tabs.query({}): the open tabs, each with its id, as they are now
QueryAllTabs ==
  LET all == [i \in 1..Len(tabs) |-> [id |-> i] @@ tabs[i]]
  IN  SelectSeq(all, LAMBDA t : t.open)

\* chrome.tabs.remove(tabId); a tab that is gone makes the call throw, which every
\* caller catches
RemoveTab(tabId) == [tabs EXCEPT ![tabId].open = FALSE]

\* the browser removes a group when its last tab leaves it
LiveGroups(newTabs) ==
  [g \in {h \in DOMAIN groups :
            \E t \in DOMAIN newTabs : newTabs[t].open /\ newTabs[t].groupId = h}
     |-> groups[g]]

\* the tab that a chrome.tabs.remove(tabId) issued now closes, if any
ClosedNow(tabId) == IF tabs[tabId].open THEN {tabId} ELSE {}

\* ------------------------------------------------------- safety net
isDomainWhitelisted(domain) == domain \in config.whitelist

\* a snooze that outlasts its alarm
EverSnoozed(tabId) == SnoozeAlarm(tabId) \in alarms \/ tabId \in hist.expired

isTabSnoozed(tabId) == SnoozeAlarm(tabId) \in alarms

\* tab.lastAccessed || now
LastAccessedOr(tab, now) == IF tab.lastAccessed = 0 THEN now ELSE tab.lastAccessed

\* ------------------------------------------------------- graceful exit
\* the safety net of the archival loops
isProtected(tab) == tab.pinned \/ tab.audible

IsIdle(tab, now, threshold) == ~(now - LastAccessedOr(tab, now) < threshold)

\* allTabs as the loop of runIdleTabCheck / handleNuclearArchive reads it.  The
\* guards on pinned, audible and the url, and the idle test, read only the tab
\* objects of the query, `now` taken right after it and the threshold read before
\* it, so their outcome is fixed when the query returns: the tabs the first three
\* pass over are left out here, and the idle test is kept as a flag
IdleSnapshot(allTabs, now, threshold) ==
  LET seen == SelectSeq(allTabs, LAMBDA tab : ~isProtected(tab)
                                              /\ getRootDomain(tab.url) # NoDomain)
  IN  [i \in 1..Len(seen) |->
         [id |-> seen[i].id, url |-> seen[i].url, title |-> seen[i].title,
          idle |-> IsIdle(seen[i], now, threshold)]]

\* the loop up to its first await: a tab that is being archived is passed over
RECURSIVE SkipProtected(_, _)
SkipProtected(todo, inflight) ==
  IF todo = <<>> THEN <<>>
  ELSE IF Head(todo).id \in inflight
       THEN SkipProtected(Tail(todo), inflight)
       ELSE todo

\* updateSweepBadge(count)
BadgeAfter(count) == IF count > 0 THEN count ELSE badge
\* a badge with no alarm to clear it
NoBadgeAlarm(count, al) == al

\* chrome.alarms.create(BADGE_CLEAR_ALARM, ...): an alarm of that name that is
\* pending is replaced
AlarmsAfterBadge(count, al) == IF count > 0 THEN al \cup {BADGE_CLEAR_ALARM} ELSE al

HistAfterBadge(count, al, h) ==
  [h EXCEPT !.overwrote = @ \/ (count > 0 /\ badge > 0 /\ BADGE_CLEAR_ALARM \in al)]

\* the run goes on with the rest of allTabs, or ends; al is the alarm set and h
\* the history the segment leaves
Resume(p, r, inflight, al, h) ==
  LET rest == SkipProtected(r.todo, inflight)
  IN  IF rest # <<>>
      THEN /\ runs' = [runs EXCEPT ![p] = [r EXCEPT !.todo = rest, !.pc = "wl"]]
           /\ badge' = badge
           /\ alarms' = al
           /\ hist' = h
      ELSE /\ runs' = [runs EXCEPT ![p] = NoRun]
           /\ badge' = IF r.kind = "nuclear" THEN BadgeAfter(r.count) ELSE badge
           /\ alarms' = IF r.kind = "nuclear" THEN AlarmsAfterBadge(r.count, al) ELSE al
           /\ hist' = IF r.kind = "nuclear"
                      THEN [HistAfterBadge(r.count, al, h) EXCEPT
                              !.response = <<r.count, r.wrote>>]
                      ELSE h

\* the invocations in progress at once: those of odd number are invocations of
\* runIdleTabCheck, those of even number of handleNuclearArchive
HandlerOf(p) == IF p % 2 = 1 THEN "idle" ELSE "nuclear"

\* the idle-tab-check alarm fires: runIdleTabCheck starts and awaits the config
IdleCheckAlarm(p) ==
  /\ IDLE_CHECK_ALARM \in alarms
  /\ HandlerOf(p) = "idle"
  /\ runs[p] = NoRun
  /\ runs' = [runs EXCEPT ![p] = [NoRun EXCEPT !.kind = "idle", !.pc = "config"]]
  /\ UNCHANGED << groupVars, tabs, clock, config, archived, swept, stats, alarms, badge, archivingTabs,
                  sweepInProgress, sweep, restarts, userEvents, hist >>

\* the popup sends nuclearArchive: handleNuclearArchive starts and awaits the tabs
NuclearArchiveMessage(p) ==
  /\ HandlerOf(p) = "nuclear"
  /\ runs[p] = NoRun
  /\ runs' = [runs EXCEPT ![p] = [NoRun EXCEPT !.kind = "nuclear", !.pc = "query",
                                                !.threshold = NUCLEAR_IDLE_HOURS]]
  /\ UNCHANGED << groupVars, tabs, clock, config, archived, swept, stats, alarms, badge, archivingTabs,
                  sweepInProgress, sweep, restarts, userEvents, hist >>

RunReadConfig(p) ==
  /\ runs[p].pc = "config"
  /\ runs' = [runs EXCEPT ![p].threshold = config.idleThresholdHours, ![p].pc = "query"]
  /\ UNCHANGED << groupVars, tabs, clock, config, archived, swept, stats, alarms, badge, archivingTabs,
                  sweepInProgress, sweep, restarts, userEvents, hist >>

RunQueryTabs(p) ==
  /\ runs[p].pc = "query"
  /\ Resume(p, [runs[p] EXCEPT !.todo = IdleSnapshot(QueryAllTabs, clock, runs[p].threshold),
                                  !.threshold = 0],
            archivingTabs, alarms, hist)
  /\ UNCHANGED << groupVars, tabs, clock, config, archived, swept, stats, archivingTabs,
                  sweepInProgress, sweep, restarts, userEvents >>

\* await isDomainWhitelisted(domain)
RunWhitelist(p) ==
  /\ runs[p].pc = "wl"
  /\ LET r == runs[p]
         tab == Head(r.todo)
     IN  IF isDomainWhitelisted(getRootDomain(tab.url))
         THEN Resume(p, [r EXCEPT !.todo = Tail(r.todo)], archivingTabs, alarms, hist)
         ELSE /\ runs' = [runs EXCEPT ![p].pc = "snooze"]
              /\ UNCHANGED << badge, alarms, hist >>
  /\ UNCHANGED << groupVars, tabs, clock, config, archived, swept, stats, archivingTabs,
                  sweepInProgress, sweep, restarts, userEvents >>

\* await isTabSnoozed(tab.id), the idle test, archivingTabs.add, and archiveTab up
\* to its await of chrome.tabs.get
RunSnoozed(p) ==
  /\ runs[p].pc = "snooze"
  /\ LET r == runs[p]
         tab == Head(r.todo)
     IN  IF isTabSnoozed(tab.id) \/ ~tab.idle
         THEN /\ Resume(p, [r EXCEPT !.todo = Tail(r.todo)], archivingTabs, alarms, hist)
              /\ UNCHANGED archivingTabs
         ELSE /\ archivingTabs' = archivingTabs \cup {tab.id}
              /\ runs' = [runs EXCEPT ![p].pc = "get"]
              /\ UNCHANGED << badge, alarms, hist >>
  /\ UNCHANGED << groupVars, tabs, clock, config, archived, swept, stats,
                  sweepInProgress, sweep, restarts, userEvents >>

\* an in-flight set that keeps the tab after its archival
KeepsInFlight(tabId) == archivingTabs

\* finally { archivingTabs.delete(tab.id) }
FinallyDelete(tabId) == archivingTabs \ {tabId}

\* archiveTab returns to its caller: archivedCount++ (nuclear), finally
\* archivingTabs.delete, next tab
AfterArchiveTab(p, r, h) ==
  LET tab == Head(r.todo)
      inflight == FinallyDelete(tab.id)
      r2 == [r EXCEPT !.todo = Tail(r.todo), !.sum = "none", !.data = <<>>,
                      !.dstats = DEFAULT_STATS,
                      !.count = IF r.kind = "nuclear" THEN r.count + 1 ELSE r.count]
  IN  /\ archivingTabs' = inflight
      /\ Resume(p, r2, inflight, alarms, h)

\* archiveTab with the close issued right after the summary, nothing persisted
AfterSummarizeClose == "close"

\* what archiveTab awaits after summarizeTab: the read of archived and stats
AfterSummarize == "read"

\* a chrome.tabs.get that resolves whether or not the tab is there
TabGetAlwaysResolves(tabId) == TRUE

\* chrome.tabs.get(tabId) resolves: the tab is open
TabGetResolves(tabId) == tabs[tabId].open

\* await chrome.tabs.get(tab.id): a tab that is gone ends archiveTab silently
RunTabGet(p) ==
  /\ runs[p].pc = "get"
  /\ LET r == runs[p]
         tab == Head(r.todo)
     IN  IF ~TabGetResolves(tab.id)
         THEN AfterArchiveTab(p, r, hist)
         ELSE /\ runs' = [runs EXCEPT ![p].pc = "ai"]
              /\ UNCHANGED << badge, alarms, hist, archivingTabs >>
  /\ UNCHANGED << groupVars, tabs, clock, config, archived, swept, stats,
                  sweepInProgress, sweep, restarts, userEvents >>

\* promptAi: the on-device model answers the prompts about pages of example.com
\* with a text and is unavailable (null) for any other page
promptAi(tab) ==
  IF getRootDomain(tab.url) = <<"example", "com">> THEN {"text"} ELSE {"null"}

\* a summary that is always taken for the model's
SummaryOfAi(aiResult) == "ai"

summarizeTab(aiResult) == IF aiResult = "text" THEN "ai" ELSE "fallback"

\* summarizeTab's await of promptAi
RunSummarize(p) ==
  /\ runs[p].pc = "ai"
  /\ \E aiResult \in promptAi(Head(runs[p].todo)) :
        runs' = [runs EXCEPT ![p].sum = summarizeTab(aiResult), ![p].pc = AfterSummarize]
  /\ UNCHANGED << groupVars, tabs, clock, config, archived, swept, stats, alarms, badge, archivingTabs,
                  sweepInProgress, sweep, restarts, userEvents, hist >>

\* await chrome.storage.local.get(['archived', 'stats'])
RunReadStore(p) ==
  /\ runs[p].pc = "read"
  /\ runs' = [runs EXCEPT ![p].data = archived, ![p].dstats = stats, ![p].pc = "write"]
  /\ UNCHANGED << groupVars, tabs, clock, config, archived, swept, stats, alarms, badge, archivingTabs,
                  sweepInProgress, sweep, restarts, userEvents, hist >>

ArchivedEntry(tab, sum) ==
  [url |-> tab.url, title |-> tab.title, summaryType |-> sum,
   domain |-> getRootDomain(tab.url)]

Tidied(st, mb) ==
  [tabsTidiedThisWeek |-> st.tabsTidiedThisWeek + 1,
   ramSavedEstimate |-> st.ramSavedEstimate + mb]

\* await chrome.storage.local.set({ archived, stats })
RunWriteStore(p) ==
  /\ runs[p].pc = "write"
  /\ LET r == runs[p]
         tab == Head(r.todo)
     IN  /\ archived' = Append(r.data, ArchivedEntry(tab, r.sum))
         /\ stats' = Tidied(r.dstats, RAM_PER_TAB_MB)
         /\ hist' = [hist EXCEPT !.archWritten = @ \cup {tab.id}]
         /\ runs' = [runs EXCEPT ![p].pc = "close", ![p].data = <<>>,
                                 ![p].dstats = DEFAULT_STATS, ![p].wrote = r.wrote + 1]
  /\ UNCHANGED << groupVars, tabs, clock, config, swept, alarms, badge, archivingTabs,
                  sweepInProgress, sweep, restarts, userEvents >>

\* await chrome.tabs.remove(tab.id) (a failure is caught), the notification, and
\* the return to the caller
RunCloseTab(p) ==
  /\ runs[p].pc = "close"
  /\ LET r == runs[p]
         tab == Head(r.todo)
     IN  /\ tabs' = RemoveTab(tab.id)
         /\ AfterArchiveTab(p, r, [hist EXCEPT !.archClosed = @ \cup ClosedNow(tab.id),
                                             !.notified = @ \cup {tab.id}])
  /\ groups' = LiveGroups(tabs')
  /\ UNCHANGED << clock, config, archived, swept, stats,
                  sweepInProgress, sweep, nextGroupId, settles, topic, bootVars, restarts,
                  userEvents >>

\* a chrome.storage.local call of archiveTab rejects: archiveTab throws, the catch
\* of the loop logs the error (no archivedCount++), finally archivingTabs.delete,
\* next tab
RunStoreFails(p) ==
  /\ runs[p].pc \in {"read", "write"}
  /\ LET r == runs[p]
         tab == Head(r.todo)
         inflight == FinallyDelete(tab.id)
     IN  /\ archivingTabs' = inflight
         /\ Resume(p, [r EXCEPT !.todo = Tail(r.todo), !.sum = "none", !.data = <<>>,
                                 !.dstats = DEFAULT_STATS],
                   inflight, alarms, hist)
  /\ UNCHANGED << groupVars, tabs, clock, config, archived, swept, stats,
                  sweepInProgress, sweep, restarts, userEvents >>

ArchiveStep(p) ==
  \/ IdleCheckAlarm(p)
  \/ NuclearArchiveMessage(p)
  \/ RunReadConfig(p)
  \/ RunQueryTabs(p)
  \/ RunWhitelist(p)
  \/ RunSnoozed(p)
  \/ RunTabGet(p)
  \/ RunSummarize(p)
  \/ RunReadStore(p)
  \/ RunWriteStore(p)
  \/ RunCloseTab(p)

\* ------------------------------------------------------- dead end sweeper
isTabStuck(tab, now) ==
  /\ tab.status # "complete"
  /\ now - LastAccessedOr(tab, now) > STUCK_TAB_THRESHOLD_H

detectTabError(tab, now) ==
  LET titleResult == checkTitleForErrors(tab.title)
  IN  IF titleResult.isError THEN titleResult
      ELSE IF isTabStuck(tab, now)
           THEN [isError |-> TRUE, reason |-> <<"Tab stuck loading for > 1 hour">>]
           ELSE NoError

\* the loop of runDeadEndSweep up to its first await on a chrome.* call: pinned and
\* audible tabs are passed over, and so is a tab without a domain that is not stuck
RECURSIVE SkipUnswept(_, _)
SkipUnswept(todo, now) ==
  IF todo = <<>> THEN <<>>
  ELSE LET tab == Head(todo)
       IN  IF \/ tab.pinned
              \/ tab.audible
              \/ (getRootDomain(tab.url) = NoDomain /\ ~isTabStuck(tab, now))
           THEN SkipUnswept(Tail(todo), now)
           ELSE todo

\* sweepTab with the close issued first, nothing logged
AfterDetectClose == "close"

\* what sweepTab awaits first: the read of swept and stats
AfterDetect == "read"

\* the sweep goes on with the rest of allTabs, or ends: the badge, and the guard
\* cleared in the finally
SweepResume(r, h) ==
  LET rest == SkipUnswept(r.todo, clock)
  IN  IF rest # <<>>
      THEN /\ sweep' = IF getRootDomain(Head(rest).url) = NoDomain
                       THEN [r EXCEPT !.todo = rest, !.pc = AfterDetect,
                                      !.reason = <<"Stuck loading (no URL, > 1 hour)">>]
                       ELSE [r EXCEPT !.todo = rest, !.pc = "wl"]
           /\ UNCHANGED << badge, alarms, sweepInProgress >>
           /\ hist' = h
      ELSE /\ sweep' = NoSweep
           /\ badge' = BadgeAfter(r.count)
           /\ alarms' = AlarmsAfterBadge(r.count, alarms)
           /\ sweepInProgress' = FALSE
           /\ hist' = [HistAfterBadge(r.count, alarms, h) EXCEPT
                          !.sweepDone = <<r.count, r.wrote>>]

\* a guard that lets every trigger through
GuardIgnored == TRUE

\* if (sweepInProgress) return: the trigger goes on only when the guard is clear
GuardClear == ~sweepInProgress

\* the dead-end-sweeper alarm fires and no sweep is in progress
SweepAlarm ==
  /\ SWEEP_ALARM_NAME \in alarms
  /\ GuardClear
  /\ sweepInProgress' = TRUE
  /\ sweep' = [NoSweep EXCEPT !.pc = "query"]
  /\ UNCHANGED << groupVars, tabs, clock, config, archived, swept, stats, alarms, badge, archivingTabs,
                  runs, restarts, userEvents, hist >>

SweepQueryTabs ==
  /\ sweep.pc = "query"
  /\ SweepResume([sweep EXCEPT !.todo = QueryAllTabs], hist)
  /\ UNCHANGED << groupVars, tabs, clock, config, archived, swept, stats, archivingTabs,
                  runs, restarts, userEvents >>

\* await isDomainWhitelisted(domain), then detectTabError
SweepWhitelist ==
  /\ sweep.pc = "wl"
  /\ LET tab == Head(sweep.todo)
         errorResult == detectTabError(tab, clock)
     IN  IF isDomainWhitelisted(getRootDomain(tab.url)) \/ ~errorResult.isError
         THEN SweepResume([sweep EXCEPT !.todo = Tail(sweep.todo)], hist)
         ELSE /\ sweep' = [sweep EXCEPT !.pc = AfterDetect, !.reason = errorResult.reason]
              /\ UNCHANGED << badge, alarms, sweepInProgress, hist >>
  /\ UNCHANGED << groupVars, tabs, clock, config, archived, swept, stats, archivingTabs,
                  runs, restarts, userEvents >>

\* sweepTab: await chrome.storage.local.get(['swept', 'stats'])
SweepReadStore ==
  /\ sweep.pc = "read"
  /\ sweep' = [sweep EXCEPT !.data = swept, !.dstats = stats, !.pc = "write"]
  /\ UNCHANGED << groupVars, tabs, clock, config, archived, swept, stats, alarms, badge, archivingTabs,
                  sweepInProgress, runs, restarts, userEvents, hist >>

SweptEntry(tab, reason) == [url |-> tab.url, title |-> tab.title, reason |-> reason]

\* sweepTab: await chrome.storage.local.set({ swept, stats })
SweepWriteStore ==
  /\ sweep.pc = "write"
  /\ LET tab == Head(sweep.todo)
     IN  /\ swept' = Append(sweep.data, SweptEntry(tab, sweep.reason))
         /\ stats' = Tidied(sweep.dstats, SWEEP_RAM_MB)
         /\ hist' = [hist EXCEPT !.sweptWritten = @ \cup {tab.id}]
  /\ sweep' = [sweep EXCEPT !.pc = "close", !.data = <<>>, !.dstats = DEFAULT_STATS,
                            !.wrote = sweep.wrote + 1]
  /\ UNCHANGED << groupVars, tabs, clock, config, archived, alarms, badge, archivingTabs,
                  sweepInProgress, runs, restarts, userEvents >>

\* sweepTab: await chrome.tabs.remove(tab.id) (a failure is caught), then
\* sweptTabs.push(tab) and the next tab
SweepCloseTab ==
  /\ sweep.pc = "close"
  /\ LET tab == Head(sweep.todo)
     IN  /\ tabs' = RemoveTab(tab.id)
         /\ SweepResume([sweep EXCEPT !.todo = Tail(sweep.todo), !.reason = <<>>,
                                      !.count = sweep.count + 1],
                        [hist EXCEPT !.sweptClosed = @ \cup ClosedNow(tab.id)])
  /\ groups' = LiveGroups(tabs')
  /\ UNCHANGED << clock, config, archived, swept, stats, archivingTabs,
                  runs, nextGroupId, settles, topic, bootVars, restarts, userEvents >>

\* the chrome.storage.local.get inside isDomainWhitelisted rejects: the exception
\* leaves the for loop, is logged by the catch of runDeadEndSweep, and the finally
\* clears the guard; updateSweepBadge is not reached
SweepWhitelistFails ==
  /\ sweep.pc = "wl"
  /\ sweep' = NoSweep
  /\ sweepInProgress' = FALSE
  /\ UNCHANGED << groupVars, tabs, clock, config, archived, swept, stats, alarms, badge, archivingTabs,
                  runs, restarts, userEvents, hist >>

\* the chrome.storage.local.get or set inside sweepTab rejects: the catch of
\* sweepTab logs it, nothing is stored and the tab stays open; the caller pushes
\* the tab to sweptTabs and goes on
SweepStoreFails ==
  /\ sweep.pc \in {"read", "write"}
  /\ SweepResume([sweep EXCEPT !.todo = Tail(sweep.todo), !.reason = <<>>, !.data = <<>>,
                               !.dstats = DEFAULT_STATS, !.count = sweep.count + 1],
                 hist)
  /\ UNCHANGED << groupVars, tabs, clock, config, archived, swept, stats, archivingTabs,
                  runs, restarts, userEvents >>

SweepFailStep ==
  \/ SweepWhitelistFails
  \/ SweepStoreFails

SweepStep ==
  \/ SweepAlarm
  \/ SweepQueryTabs
  \/ SweepWhitelist
  \/ SweepReadStore
  \/ SweepWriteStore
  \/ SweepCloseTab

\* ------------------------------------------------------- clean slate
\* String.prototype.toUpperCase / toLowerCase on the labels the model uses
CaseForms ==
  { <<"example", "EXAMPLE">>, <<"com", "COM">>, <<"site", "SITE">>, <<"org", "ORG">>,
    <<"news", "NEWS">>, <<"www", "WWW">>, <<"a", "A">>, <<"b", "B">>,
    <<"work", "WORK">> }

toUpperCase(s) ==
  [i \in DOMAIN s |-> IF \E f \in CaseForms : f[1] = s[i]
                      THEN (CHOOSE f \in CaseForms : f[1] = s[i])[2]
                      ELSE s[i]]

toLowerCase(s) ==
  [i \in DOMAIN s |-> IF \E f \in CaseForms : f[2] = s[i]
                      THEN (CHOOSE f \in CaseForms : f[2] = s[i])[1]
                      ELSE s[i]]

\* the tab object the browser hands to a listener or returns from chrome.tabs.get
Snap(tabId) ==
  [url |-> tabs[tabId].url, pinned |-> tabs[tabId].pinned, groupId |-> tabs[tabId].groupId]

\* chrome.tabs.query({ pinned: false }) filtered to one domain: ids and group ids
SameDomainTabs(domain) ==
  { [id |-> t, groupId |-> tabs[t].groupId] :
      t \in { u \in TabIds : /\ tabs[u].open
                             /\ ~tabs[u].pinned
                             /\ getRootDomain(tabs[u].url) = domain } }

\* a lookup that never finds a group
NoExistingGroup(domain) == {}

\* chrome.tabGroups.query({ title }): the groups with that title
findExistingGroup(domain) == { g \in DOMAIN groups : groups[g].title = toUpperCase(domain) }

\* chrome.tabs.group: the tabs join the group; a pinned tab is unpinned by joining
GroupTabs(ids, g) ==
  [t \in DOMAIN tabs |-> IF t \in ids
                         THEN [tabs[t] EXCEPT !.groupId = g, !.pinned = FALSE]
                         ELSE tabs[t]]

\* history of the tab-settled handlers: hist.first is the tab whose handler started
\* while no other handler was running and has had the browser to itself since;
\* hist.settled is the tab whose handler ran that way from start to end, after which
\* only handlers for the same tab have started and nothing else has happened
SettleHist ==
  LET started == { q \in Procs : settles[q] = NoSettle /\ settles'[q] # NoSettle }
      idleNow == \A q \in Procs : settles[q] = NoSettle
      idleNext == \A q \in Procs : settles'[q] = NoSettle
  IN  IF started # {}
      THEN LET t == settles'[CHOOSE q \in started : TRUE].tabId
           IN  IF hist.settled = t THEN hist
               ELSE IF idleNow THEN [hist EXCEPT !.first = t, !.settled = 0]
               ELSE [hist EXCEPT !.first = 0, !.settled = 0]
      ELSE IF hist.first # 0 /\ idleNext
           THEN [hist EXCEPT !.first = 0, !.settled = hist.first]
           ELSE hist

SettleUnchanged ==
  /\ UNCHANGED << clock, config, archived, swept, stats, alarms, badge, archivingTabs,
                  sweepInProgress, runs, sweep, topic, bootVars, restarts, userEvents >>
  /\ hist' = SettleHist

\* evaluateAutoGroup up to its first await
evaluateAutoGroup(p, s, tab) ==
  settles' = [settles EXCEPT ![p] =
                IF tab.pinned \/ getRootDomain(tab.url) = NoDomain
                THEN NoSettle
                ELSE [s EXCEPT !.pc = "wl", !.tab = tab]]

StaleGroup(tab) ==
  IF /\ tab.groupId \in DOMAIN groups
     /\ getRootDomain(tab.url) # NoDomain
     /\ groups[tab.groupId].title # toUpperCase(getRootDomain(tab.url))
  THEN tab.groupId ELSE -1

\* chrome.tabs.onUpdated delivers status 'complete' for a tab
TabSettles(p, tabId) ==
  /\ settles[p] = NoSettle
  /\ \A q \in Procs : q < p => settles[q] # NoSettle
  /\ tabs[tabId].open
  /\ LET tab == Snap(tabId)
         s == [NoSettle EXCEPT !.tabId = tabId, !.tab = tab, !.stale = StaleGroup(tab)]
     IN  IF tab.groupId # -1 /\ ~tab.pinned /\ getRootDomain(tab.url) # NoDomain
         THEN settles' = [settles EXCEPT ![p] = [s EXCEPT !.pc = "gget"]]
         ELSE evaluateAutoGroup(p, s, tab)
  /\ UNCHANGED << tabs, groups, nextGroupId >>
  /\ SettleUnchanged

\* chrome.tabGroups.get returns (or throws: the group is gone)
SettleGroupGet(p) ==
  /\ settles[p].pc = "gget"
  /\ LET s == settles[p]
         domain == getRootDomain(s.tab.url)
     IN  IF s.tab.groupId \in DOMAIN groups
         THEN LET groupDomain == toLowerCase(groups[s.tab.groupId].title)
              IN  IF groupDomain # <<>> /\ groupDomain # domain
                  THEN settles' = [settles EXCEPT ![p] = [s EXCEPT !.pc = "ungroup"]]
                  ELSE evaluateAutoGroup(p, s, s.tab)
         ELSE evaluateAutoGroup(p, s, s.tab)
  /\ UNCHANGED << tabs, groups, nextGroupId >>
  /\ SettleUnchanged

\* chrome.tabs.ungroup returns (or throws: the tab is gone)
SettleUngroup(p) ==
  /\ settles[p].pc = "ungroup"
  /\ LET s == settles[p]
     IN  IF tabs[s.tabId].open
         THEN /\ tabs' = [tabs EXCEPT ![s.tabId].groupId = -1]
              /\ groups' = LiveGroups(tabs')
              /\ settles' = [settles EXCEPT ![p] = [s EXCEPT !.pc = "refetch"]]
         ELSE /\ evaluateAutoGroup(p, s, s.tab)
              /\ UNCHANGED << tabs, groups >>
  /\ UNCHANGED nextGroupId
  /\ SettleUnchanged

\* chrome.tabs.get returns (or throws: the tab is gone)
SettleRefetch(p) ==
  /\ settles[p].pc = "refetch"
  /\ LET s == settles[p]
     IN  IF tabs[s.tabId].open
         THEN evaluateAutoGroup(p, s, Snap(s.tabId))
         ELSE evaluateAutoGroup(p, s, s.tab)
  /\ UNCHANGED << tabs, groups, nextGroupId >>
  /\ SettleUnchanged

\* isDomainWhitelisted returns
SettleWhitelist(p) ==
  /\ settles[p].pc = "wl"
  /\ LET s == settles[p]
     IN  settles' = [settles EXCEPT ![p] =
                       IF isDomainWhitelisted(getRootDomain(s.tab.url))
                       THEN NoSettle
                       ELSE [s EXCEPT !.pc = "cfg"]]
  /\ UNCHANGED << tabs, groups, nextGroupId >>
  /\ SettleUnchanged

\* chrome.storage.local.get('config') returns
SettleConfig(p) ==
  /\ settles[p].pc = "cfg"
  /\ settles' = [settles EXCEPT ![p] = [@ EXCEPT !.pc = "query",
                                                 !.threshold = config.groupThreshold]]
  /\ UNCHANGED << tabs, groups, nextGroupId >>
  /\ SettleUnchanged

\* chrome.tabs.query({ pinned: false }) returns
SettleQuery(p) ==
  /\ settles[p].pc = "query"
  /\ LET s == settles[p]
         sameDomainTabs == SameDomainTabs(getRootDomain(s.tab.url))
     IN  settles' = [settles EXCEPT ![p] =
                       IF Cardinality(sameDomainTabs) < s.threshold
                       THEN NoSettle
                       ELSE [s EXCEPT !.pc = "find", !.threshold = 0,
                                      !.same = sameDomainTabs]]
  /\ UNCHANGED << tabs, groups, nextGroupId >>
  /\ SettleUnchanged

\* findExistingGroup returns: the first group of the answer, or null
SettleFind(p) ==
  /\ settles[p].pc = "find"
  /\ LET s == settles[p]
         found == findExistingGroup(getRootDomain(s.tab.url))
     IN  IF found # {}
         THEN \E existingGroup \in found :
                LET ungroupedIds == { t.id : t \in { u \in s.same : u.groupId # existingGroup } }
                IN  settles' = [settles EXCEPT ![p] =
                                  IF ungroupedIds # {}
                                  THEN [s EXCEPT !.pc = "join", !.same = ungroupedIds,
                                                 !.gid = existingGroup]
                                  ELSE NoSettle]
         ELSE settles' = [settles EXCEPT ![p] =
                            [s EXCEPT !.pc = "create", !.same = { t.id : t \in s.same }]]
  /\ UNCHANGED << tabs, groups, nextGroupId >>
  /\ SettleUnchanged

\* chrome.tabs.group({ tabIds, groupId }) returns (or throws: a tab or the group is gone)
SettleJoin(p) ==
  /\ settles[p].pc = "join"
  /\ LET s == settles[p]
     IN  IF s.gid \in DOMAIN groups /\ \A t \in s.same : tabs[t].open
         THEN /\ tabs' = GroupTabs(s.same, s.gid)
              /\ groups' = LiveGroups(tabs')
         ELSE UNCHANGED << tabs, groups >>
  /\ settles' = [settles EXCEPT ![p] = NoSettle]
  /\ UNCHANGED nextGroupId
  /\ SettleUnchanged

\* chrome.tabs.group({ tabIds }) returns the new group's id (or throws: a tab is gone)
SettleCreate(p) ==
  /\ settles[p].pc = "create"
  /\ nextGroupId <= MaxGroups
  /\ LET s == settles[p]
     IN  IF \A t \in s.same : tabs[t].open
         THEN /\ tabs' = GroupTabs(s.same, nextGroupId)
              /\ groups' = [g \in DOMAIN LiveGroups(tabs') \cup {nextGroupId} |->
                              IF g = nextGroupId THEN NoGroup ELSE groups[g]]
              /\ nextGroupId' = nextGroupId + 1
              /\ settles' = [settles EXCEPT ![p] = [s EXCEPT !.pc = "update", !.same = {},
                                                             !.gid = nextGroupId]]
         ELSE /\ settles' = [settles EXCEPT ![p] = NoSettle]
              /\ UNCHANGED << tabs, groups, nextGroupId >>
  /\ SettleUnchanged

\* chrome.tabGroups.update returns (or throws: the group is gone)
SettleUpdate(p) ==
  /\ settles[p].pc = "update"
  /\ LET s == settles[p]
     IN  groups' = IF s.gid \in DOMAIN groups
                   THEN [groups EXCEPT ![s.gid] =
                           [title |-> toUpperCase(getRootDomain(s.tab.url)),
                            collapsed |-> TRUE]]
                   ELSE groups
  /\ settles' = [settles EXCEPT ![p] = NoSettle]
  /\ UNCHANGED << tabs, nextGroupId >>
  /\ SettleUnchanged

SettleStep(p) ==
  \/ \E t \in TabIds : TabSettles(p, t)
  \/ SettleGroupGet(p)
  \/ SettleUngroup(p)
  \/ SettleRefetch(p)
  \/ SettleWhitelist(p)
  \/ SettleConfig(p)
  \/ SettleQuery(p)
  \/ SettleFind(p)
  \/ SettleJoin(p)
  \/ SettleCreate(p)
  \/ SettleUpdate(p)

\* ------------------------------------------------------- topic grouping
TOPIC_GROUPING_MIN_TABS == 4

\* a JSON number: the integer int, or int + 1/2 when frac
Index(i) == [int |-> i, frac |-> FALSE]
Fraction(i) == [int |-> i, frac |-> TRUE]

\* an element of the clusters array: null, or an object with a title (<<>> when it
\* is missing or empty; a number when not titleIsString) and indices
JNull == [kind |-> "null", title |-> <<>>, titleIsString |-> TRUE,
          indices |-> <<>>, indicesIsArray |-> FALSE]

Cluster(title, titleIsString, indices, indicesIsArray) ==
  [kind |-> "object", title |-> title, titleIsString |-> titleIsString,
   indices |-> indices, indicesIsArray |-> indicesIsArray]

Work(indices) == Cluster(<<"work">>, TRUE, indices, TRUE)

\* what the offscreen document answers: nothing (unavailable, error, empty), text
\* without braces, braces JSON.parse rejects, or a JSON value
AiAnswer(kind, clustersIsArray, clusters) ==
  [kind |-> kind, clustersIsArray |-> clustersIsArray, clusters |-> clusters]

AiAnswers ==
  { AiAnswer("null", FALSE, <<>>),
    AiAnswer("text", FALSE, <<>>),
    AiAnswer("unparsable", FALSE, <<>>),
    AiAnswer("json", FALSE, <<>>),
    AiAnswer("json", TRUE, << Work(<< Index(0), Index(1) >>) >>),
    AiAnswer("json", TRUE, << Work(<< Index(0), Index(1) >>), Work(<< Index(2), Index(3) >>) >>),
    AiAnswer("json", TRUE, << Cluster(<<>>, TRUE, << Index(0), Index(1) >>, TRUE),
                              Work(<< Index(2), Index(3) >>) >>),
    AiAnswer("json", TRUE, << Cluster(<<"work">>, TRUE, <<>>, FALSE),
                              Work(<< Index(0), Index(7) >>) >>),
    AiAnswer("json", TRUE, << Cluster(<<"7">>, FALSE, << Index(2), Index(3) >>, TRUE) >>),
    AiAnswer("json", TRUE, << Work(<< Index(3), Index(3) >>) >>),
    AiAnswer("json", TRUE, << Work(<< Index(0) >>), Work(<< Index(1), Index(3) >>) >>),
    AiAnswer("json", TRUE, << JNull, Work(<< Index(0), Index(1) >>) >>),
    AiAnswer("json", TRUE, << Work(<< Index(0), Fraction(1), Index(2) >>) >>) }

TopicUnchanged ==
  UNCHANGED << clock, config, archived, swept, stats, alarms, badge, archivingTabs,
               sweepInProgress, runs, sweep, settles, bootVars, restarts, userEvents >>

\* runTopicGrouping returns: the alarm listener returns, the message listener sends
\* { ok: true }
TopicReturns ==
  /\ topic' = NoTopic
  /\ hist' = IF topic.manual THEN [hist EXCEPT !.sent = "ok"] ELSE hist

\* runTopicGrouping rejects: the message listener's catch sends { ok: false }, the
\* alarm listener awaits it with no catch
TopicThrows ==
  /\ topic' = NoTopic
  /\ hist' = IF topic.manual THEN [hist EXCEPT !.sent = "failed"]
                             ELSE [hist EXCEPT !.unhandled = TRUE]

\* the loop over clusters.clusters up to its next await: the first cluster that
\* gets as far as chrome.tabs.get, or the end of the loop, or a TypeError
RECURSIVE NextCluster(_, _)
NextCluster(clusters, candidates) ==
  IF clusters = <<>> THEN [op |-> "done", cluster |-> JNull, tabIds |-> <<>>, rest |-> <<>>]
  ELSE LET cluster == Head(clusters)
           kept == SelectSeq(cluster.indices,
                             LAMBDA i : i.int >= 0 /\ i.int < Len(candidates))
           tabIds == [k \in DOMAIN kept |-> candidates[kept[k].int + 1]]
       IN  IF cluster.kind = "null"
           THEN [op |-> "throw", cluster |-> JNull, tabIds |-> <<>>, rest |-> <<>>]
           ELSE IF cluster.title = <<>> \/ ~cluster.indicesIsArray
           THEN NextCluster(Tail(clusters), candidates)
           ELSE IF Len(cluster.indices) < 2
           THEN NextCluster(Tail(clusters), candidates)
           ELSE IF \E k \in DOMAIN kept : kept[k].frac
           THEN [op |-> "throw", cluster |-> JNull, tabIds |-> <<>>, rest |-> <<>>]
           ELSE IF Len(tabIds) < 2
           THEN NextCluster(Tail(clusters), candidates)
           ELSE [op |-> "verify", cluster |-> cluster, tabIds |-> tabIds,
                 rest |-> Tail(clusters)]

TopicLoop(clusters) ==
  LET n == NextCluster(clusters, topic.candidates)
  IN  CASE n.op = "done" -> TopicReturns
        [] n.op = "throw" -> TopicThrows
        [] n.op = "verify" ->
             /\ topic' = [topic EXCEPT !.pc = "get", !.clusters = n.rest,
                                       !.title = n.cluster.title,
                                       !.titleIsString = n.cluster.titleIsString,
                                       !.tabIds = n.tabIds, !.validIds = <<>>, !.gid = -1]
             /\ UNCHANGED hist

\* alarms.onAlarm for topic-grouping (manual false), or the runTopicGrouping message
\* of the popup (manual true)
TopicStart(manual) ==
  /\ topic = NoTopic
  /\ topic' = [NoTopic EXCEPT !.pc = "cfg", !.manual = manual]
  /\ UNCHANGED << tabs, groups, nextGroupId, hist >>
  /\ TopicUnchanged

\* chrome.storage.local.get('config') returns
TopicConfig ==
  /\ topic.pc = "cfg"
  /\ IF ~topic.manual /\ ~config.enableTopicGrouping
     THEN TopicReturns
     ELSE topic' = [topic EXCEPT !.pc = "query"] /\ UNCHANGED hist
  /\ UNCHANGED << tabs, groups, nextGroupId >>
  /\ TopicUnchanged

\* the candidates are counted: fewer than TOPIC_GROUPING_MIN_TABS ends the run,
\* otherwise the prompt goes to the offscreen document
TopicCandidates(t) ==
  IF t.todo # <<>> THEN topic' = [t EXCEPT !.pc = "wl"] /\ UNCHANGED hist
  ELSE IF Len(t.candidates) < TOPIC_GROUPING_MIN_TABS THEN TopicReturns
  ELSE topic' = [t EXCEPT !.pc = "ai"] /\ UNCHANGED hist

\* chrome.tabs.query({ pinned: false }) returns: the ungrouped, silent tabs with a
\* domain go on to the whitelist check
TopicQuery ==
  /\ topic.pc = "query"
  /\ LET allTabs == SelectSeq(QueryAllTabs, LAMBDA tab : ~tab.pinned)
         passed == SelectSeq(allTabs, LAMBDA tab : /\ tab.groupId = -1
                                                   /\ ~tab.audible
                                                   /\ getRootDomain(tab.url) # NoDomain)
     IN  TopicCandidates([topic EXCEPT !.todo =
                            [k \in DOMAIN passed |->
                               [id |-> passed[k].id, domain |-> getRootDomain(passed[k].url)]]])
  /\ UNCHANGED << tabs, groups, nextGroupId >>
  /\ TopicUnchanged

\* isDomainWhitelisted returns for the next tab
TopicWhitelist ==
  /\ topic.pc = "wl"
  /\ LET tab == Head(topic.todo)
     IN  TopicCandidates([topic EXCEPT !.todo = Tail(@),
                                       !.candidates = IF isDomainWhitelisted(tab.domain)
                                                      THEN @ ELSE Append(@, tab.id)])
  /\ UNCHANGED << tabs, groups, nextGroupId >>
  /\ TopicUnchanged

\* promptAi returns; response.match, JSON.parse and the check of clusters.clusters
TopicAi ==
  /\ topic.pc = "ai"
  /\ \E response \in AiAnswers :
        IF response.kind # "json" \/ ~response.clustersIsArray
        THEN TopicReturns
        ELSE TopicLoop(response.clusters)
  /\ UNCHANGED << tabs, groups, nextGroupId >>
  /\ TopicUnchanged

\* chrome.tabs.get(id) returns (or throws: the tab is gone)
TopicTabGet ==
  /\ topic.pc = "get"
  /\ LET id == Head(topic.tabIds)
         validIds == IF tabs[id].open /\ tabs[id].groupId = -1
                     THEN Append(topic.validIds, id) ELSE topic.validIds
     IN  IF Tail(topic.tabIds) # <<>>
         THEN /\ topic' = [topic EXCEPT !.tabIds = Tail(@), !.validIds = validIds]
              /\ UNCHANGED hist
         ELSE IF Len(validIds) < 2
         THEN TopicLoop(topic.clusters)
         ELSE /\ topic' = [topic EXCEPT !.pc = "group", !.tabIds = <<>>,
                                        !.validIds = validIds]
              /\ UNCHANGED hist
  /\ UNCHANGED << tabs, groups, nextGroupId >>
  /\ TopicUnchanged

\* chrome.tabs.group({ tabIds: validIds }) returns the new group's id (or throws: a
\* tab is gone); cluster.title.toLowerCase() throws for a title that is no string
TopicGroup ==
  /\ topic.pc = "group"
  /\ nextGroupId <= MaxGroups
  /\ LET ids == { topic.validIds[k] : k \in DOMAIN topic.validIds }
     IN  IF \A t \in ids : tabs[t].open
         THEN /\ tabs' = GroupTabs(ids, nextGroupId)
              /\ groups' = [g \in DOMAIN LiveGroups(tabs') \cup {nextGroupId} |->
                              IF g = nextGroupId THEN NoGroup ELSE groups[g]]
              /\ nextGroupId' = nextGroupId + 1
              /\ IF topic.titleIsString
                 THEN /\ topic' = [topic EXCEPT !.pc = "update", !.validIds = <<>>,
                                                !.gid = nextGroupId]
                      /\ UNCHANGED hist
                 ELSE TopicLoop(topic.clusters)
         ELSE /\ TopicLoop(topic.clusters)
              /\ UNCHANGED << tabs, groups, nextGroupId >>
  /\ TopicUnchanged

\* chrome.tabGroups.update returns (or throws: the group is gone)
TopicUpdate ==
  /\ topic.pc = "update"
  /\ groups' = IF topic.gid \in DOMAIN groups
               THEN [groups EXCEPT ![topic.gid] =
                       [title |-> toUpperCase(topic.title), collapsed |-> TRUE]]
               ELSE groups
  /\ TopicLoop(topic.clusters)
  /\ UNCHANGED << tabs, nextGroupId >>
  /\ TopicUnchanged

TopicStep ==
  \/ TopicStart(FALSE)
  \/ TopicStart(TRUE)
  \/ TopicConfig
  \/ TopicQuery
  \/ TopicWhitelist
  \/ TopicAi
  \/ TopicTabGet
  \/ TopicGroup
  \/ TopicUpdate

\* ------------------------------------------------------- other handlers
\* showStayOfExecution(tabId): the notification with the two buttons is shown for
\* the tab.  No handler of the program calls it.
showStayOfExecution(tabId) == [hist EXCEPT !.prompted = @ \cup {tabId}]


\* notifications.onButtonClicked, button 0 ("Yes, Keep Open") of closure-stay-<tabId>
KeepResponse(tabId) ==
  /\ userEvents < MaxUserEvents
  /\ userEvents' = userEvents + 1
  /\ archivingTabs' = archivingTabs \ {tabId}
  /\ hist' = [hist EXCEPT !.kept = @ \cup ({tabId} \cap archivingTabs)]
  /\ UNCHANGED << groupVars, tabs, clock, config, archived, swept, stats, alarms, badge,
                  sweepInProgress, runs, sweep, restarts >>

\* notifications.onButtonClicked, button 1 ("Snooze 24h")
SnoozeResponse(tabId) ==
  /\ userEvents < MaxUserEvents
  /\ userEvents' = userEvents + 1
  /\ archivingTabs' = archivingTabs \ {tabId}
  /\ alarms' = alarms \cup {SnoozeAlarm(tabId)}
  /\ UNCHANGED << groupVars, tabs, clock, config, archived, swept, stats, badge,
                  sweepInProgress, runs, sweep, restarts, hist >>

\* alarms.onAlarm for snooze-<tabId>: the one-shot alarm is gone, the handler does nothing
SnoozeAlarmFires(tabId) ==
  /\ SnoozeAlarm(tabId) \in alarms
  /\ alarms' = alarms \ {SnoozeAlarm(tabId)}
  /\ hist' = [hist EXCEPT !.expired = @ \cup {tabId}]
  /\ UNCHANGED << groupVars, tabs, clock, config, archived, swept, stats, badge, archivingTabs,
                  sweepInProgress, runs, sweep, restarts, userEvents >>

\* alarms.onAlarm for clear-sweep-badge
BadgeClearAlarm ==
  /\ BADGE_CLEAR_ALARM \in alarms
  /\ alarms' = alarms \ {BADGE_CLEAR_ALARM}
  /\ badge' = 0
  /\ UNCHANGED << groupVars, tabs, clock, config, archived, swept, stats, archivingTabs,
                  sweepInProgress, runs, sweep, restarts, userEvents, hist >>

\* ------------------------------------------------------- the router
\* chrome.alarms.onAlarm: the handlers the listener starts for an alarm name
onAlarm(name) ==
  IF name = SWEEP_ALARM_NAME THEN {"runDeadEndSweep"}
  ELSE IF name = BADGE_CLEAR_ALARM THEN {"setBadgeText"}
  ELSE IF name = IDLE_CHECK_ALARM THEN {"runIdleTabCheck"}
  ELSE IF name = TOPIC_GROUPING_ALARM THEN {"runTopicGrouping"}
  ELSE IF name[1] = "snooze-" THEN {"snoozeExpired"}
  ELSE {}

\* chrome.runtime.onMessage of the service worker
onMessage(action) ==
  IF action = "aiPrompt" THEN {}
  ELSE IF action = "nuclearArchive" THEN {"handleNuclearArchive"}
  ELSE IF action = "runTopicGrouping" THEN {"runTopicGrouping(manual)"}
  ELSE IF action = "rescheduleTopicGrouping" THEN {"scheduleTopicGroupingAlarm"}
  ELSE {}

\* chrome.runtime.onMessage of the offscreen document
offscreenOnMessage(action) == IF action # "aiPrompt" THEN {} ELSE {"handleAiPrompt"}

AlarmEvent(name) == [kind |-> "alarm", name |-> name, action |-> ""]
MessageEvent(action) == [kind |-> "message", name |-> <<"", 0>>, action |-> action]

RouterEvents ==
  { AlarmEvent(SWEEP_ALARM_NAME), AlarmEvent(BADGE_CLEAR_ALARM),
    AlarmEvent(IDLE_CHECK_ALARM), AlarmEvent(TOPIC_GROUPING_ALARM),
    AlarmEvent(SnoozeAlarm(1)), AlarmEvent(CollapseAlarm(1)),
    MessageEvent("nuclearArchive"), MessageEvent("runTopicGrouping"),
    MessageEvent("rescheduleTopicGrouping"), MessageEvent("aiPrompt") }

Route(e) ==
  IF e.kind = "alarm" THEN onAlarm(e.name)
  ELSE onMessage(e.action) \cup offscreenOnMessage(e.action)

\* an alarm fires or a message arrives: the listeners choose the handlers
Dispatch(e) ==
  /\ Len(hist.routed) < MaxRouted
  /\ hist' = [hist EXCEPT !.routed = Append(@, <<e, Route(e)>>)]
  /\ UNCHANGED << groupVars, tabs, clock, config, archived, swept, stats, alarms, badge,
                  archivingTabs, sweepInProgress, runs, sweep, restarts, userEvents >>

\* ------------------------------------------------------- the user, the browser
Tick ==
  /\ \E i \in 1..(Len(ClockPoints) - 1) :
        /\ clock = ClockPoints[i]
        /\ clock' = ClockPoints[i + 1]
  /\ UNCHANGED << groupVars, tabs, config, archived, swept, stats, alarms, badge, archivingTabs,
                  sweepInProgress, runs, sweep, restarts, userEvents, hist >>

UserEvent(newTabs, newConfig, h) ==
  /\ userEvents < MaxUserEvents
  /\ userEvents' = userEvents + 1
  /\ tabs' = newTabs
  /\ config' = newConfig
  /\ hist' = [h EXCEPT !.first = 0, !.settled = 0]
  /\ groups' = LiveGroups(newTabs)
  /\ UNCHANGED << clock, archived, swept, stats, alarms, badge, archivingTabs,
                  sweepInProgress, runs, sweep, nextGroupId, settles, topic, bootVars,
                  restarts >>

\* the user activates the tab
UserTouchesTab(tabId) ==
  /\ tabs[tabId].open
  /\ tabs[tabId].lastAccessed # clock
  /\ UserEvent([tabs EXCEPT ![tabId].lastAccessed = clock], config,
               [hist EXCEPT !.kept = @ \ {tabId}])

UserPinsTab(tabId) ==
  /\ tabs[tabId].open
  /\ ~tabs[tabId].pinned
  /\ UserEvent([tabs EXCEPT ![tabId].pinned = TRUE, ![tabId].groupId = -1], config, hist)

TabStartsAudio(tabId) ==
  /\ tabs[tabId].open
  /\ ~tabs[tabId].audible
  /\ UserEvent([tabs EXCEPT ![tabId].audible = TRUE], config, hist)

UserClosesTab(tabId) ==
  /\ tabs[tabId].open
  /\ UserEvent(RemoveTab(tabId), config, hist)

NavTargets == { Url("https:", <<"news", "site", "org">>) }

\* the user navigates the tab to another page
UserNavigates(tabId, url) ==
  /\ tabs[tabId].open
  /\ tabs[tabId].url # url
  /\ UserEvent([tabs EXCEPT ![tabId].url = url, ![tabId].lastAccessed = clock], config,
               [hist EXCEPT !.kept = @ \ {tabId}])

\* the whitelists the settings page saves: none, a registrable domain, a hostname
WhitelistChoices == { {}, {<<"example", "com">>}, {<<"news", "site", "org">>} }

\* the settings page saves a whitelist
SaveWhitelist(whitelist) ==
  /\ whitelist # config.whitelist
  /\ UserEvent(tabs, [config EXCEPT !.whitelist = whitelist], hist)

\* an in-flight set that outlived the service worker
KeptArchivingTabs == archivingTabs

\* const archivingTabs = new Set(): the set a new service worker starts with
NewArchivingTabs == {}

\* the browser terminates the service worker with handlers suspended: they never
\* resume, and the module-level state (archivingTabs, sweepInProgress) starts afresh
Restart ==
  /\ restarts < MaxRestarts
  /\ \/ sweepInProgress
     \/ topic # NoTopic
     \/ \E p \in Procs : runs[p] # NoRun \/ settles[p] # NoSettle
  /\ restarts' = restarts + 1
  /\ runs' = [p \in Procs |-> NoRun]
  /\ settles' = [p \in Procs |-> NoSettle]
  /\ topic' = NoTopic
  /\ sweep' = NoSweep
  /\ archivingTabs' = NewArchivingTabs
  /\ sweepInProgress' = FALSE
  /\ hist' = [hist EXCEPT !.prevWritten = hist.archWritten, !.first = 0, !.settled = 0]
  /\ UNCHANGED << tabs, clock, config, archived, swept, stats, alarms, badge,
                  groups, nextGroupId, bootVars, userEvents >>

\* ------------------------------------------------------- the start of the service worker
\* chrome.storage.local.set(DEFAULT_STORAGE) has been applied
StoreDefaults ==
  /\ schema_version' = 1
  /\ config' = DEFAULT_CONFIG
  /\ archived' = <<>>
  /\ swept' = <<>>
  /\ stats' = DEFAULT_STATS

\* the two chrome.alarms.create of the onInstalled listener: an alarm of the same
\* name that is pending is replaced
RecurringAlarms(al) == al \cup {SWEEP_ALARM_NAME, IDLE_CHECK_ALARM}

\* scheduleTopicGroupingAlarm once its chrome.storage.local.get('config') has returned
ScheduledAlarms(al) ==
  IF ~config.enableTopicGrouping THEN al \ {TOPIC_GROUPING_ALARM}
  ELSE al \cup {TOPIC_GROUPING_ALARM}

ScheduledPeriod == IF ~config.enableTopicGrouping THEN 0 ELSE TopicPeriodOf(config)

BootUnchanged ==
  UNCHANGED << clock, badge, runs, sweep, groups, nextGroupId, settles, topic >>

\* the first install: the service worker starts, the top level attaches the
\* listeners, onInstalled('install') is delivered and awaits the storage.set
InstallEvent ==
  /\ ~hist.installed
  /\ listeners' = TopLevelListeners
  /\ inst' = [pc |-> "set", reason |-> "install"]
  /\ hist' = [hist EXCEPT !.installed = TRUE]
  /\ UNCHANGED << tabs, config, archived, swept, stats, alarms, archivingTabs,
                  sweepInProgress, schema_version, topicPeriod, resched, restarts,
                  userEvents >>
  /\ BootUnchanged

\* the reasons other than 'install' that onInstalled is delivered with
RestartReasons == {"update", "chrome_update"}

\* the extension or the browser is updated: the service worker is replaced by a new
\* one (handlers in progress never resume, the module-level state starts afresh),
\* and onInstalled(reason) runs up to its first await
UpdateEvent(reason) ==
  /\ hist.installed
  /\ restarts < MaxRestarts
  /\ restarts' = restarts + 1
  /\ listeners' = TopLevelListeners
  /\ resched' = IF resched = "sent" THEN "sent" ELSE "done"
  /\ archivingTabs' = NewArchivingTabs
  /\ sweepInProgress' = FALSE
  /\ IF reason = "update"
     THEN /\ inst' = [pc |-> "schema", reason |-> reason]
          /\ UNCHANGED alarms
     ELSE /\ inst' = [pc |-> "sched", reason |-> reason]
          /\ alarms' = RecurringAlarms(alarms)
  /\ UNCHANGED << tabs, config, archived, swept, stats, schema_version, topicPeriod,
                  userEvents, hist >>
  /\ BootUnchanged

\* 'install': the storage.set has returned; the onboarding page, the two alarms,
\* and scheduleTopicGroupingAlarm up to its await
InstSet ==
  /\ inst.pc = "set"
  /\ StoreDefaults
  /\ tabs' = Append(tabs, Tab(Url("chrome-extension:", <<"onboarding">>), <<"welcome">>,
                              "loading", clock))
  /\ alarms' = RecurringAlarms(alarms)
  /\ inst' = [inst EXCEPT !.pc = "sched"]
  /\ UNCHANGED << archivingTabs, sweepInProgress, topicPeriod, listeners, resched,
                  restarts, userEvents, hist >>
  /\ BootUnchanged

\* 'update': chrome.storage.local.get('schema_version') has returned
InstSchema ==
  /\ inst.pc = "schema"
  /\ IF schema_version = 0
     THEN /\ inst' = [inst EXCEPT !.pc = "reset"]
          /\ UNCHANGED alarms
     ELSE /\ inst' = [inst EXCEPT !.pc = "sched"]
          /\ alarms' = RecurringAlarms(alarms)
  /\ UNCHANGED << tabs, config, archived, swept, stats, archivingTabs, sweepInProgress,
                  schema_version, topicPeriod, listeners, resched, restarts, userEvents,
                  hist >>
  /\ BootUnchanged

\* 'update' with no schema_version: the storage.set has returned
InstReset ==
  /\ inst.pc = "reset"
  /\ StoreDefaults
  /\ alarms' = RecurringAlarms(alarms)
  /\ inst' = [inst EXCEPT !.pc = "sched"]
  /\ UNCHANGED << tabs, archivingTabs, sweepInProgress, topicPeriod, listeners, resched,
                  restarts, userEvents, hist >>
  /\ BootUnchanged

\* the await of scheduleTopicGroupingAlarm returns: the onInstalled listener is done
InstSched ==
  /\ inst.pc = "sched"
  /\ alarms' = ScheduledAlarms(alarms)
  /\ topicPeriod' = ScheduledPeriod
  /\ inst' = NoInst
  /\ UNCHANGED << tabs, config, archived, swept, stats, archivingTabs, sweepInProgress,
                  schema_version, listeners, resched, restarts, userEvents, hist >>
  /\ BootUnchanged

\* the browser terminates the service worker; al is what is left of the alarms:
\* all of them, or, when the browser itself restarts, possibly none
WorkerEnds(al) ==
  /\ listeners # {}
  /\ restarts < MaxRestarts
  /\ restarts' = restarts + 1
  /\ listeners' = {}
  /\ inst' = NoInst
  /\ resched' = IF resched = "sent" THEN "sent" ELSE "done"
  /\ archivingTabs' = NewArchivingTabs
  /\ sweepInProgress' = FALSE
  /\ alarms' = al
  /\ topicPeriod' = IF TOPIC_GROUPING_ALARM \in al THEN topicPeriod ELSE 0
  /\ UNCHANGED << tabs, config, archived, swept, stats, schema_version, userEvents, hist >>
  /\ BootUnchanged

WorkerStops == WorkerEnds(alarms)

BrowserRestarts == \E al \in {alarms, {}} : WorkerEnds(al)

\* an event wakes the service worker: the top level of background.js runs
WorkerStarts ==
  /\ hist.installed
  /\ listeners = {}
  /\ listeners' = TopLevelListeners
  /\ UNCHANGED << tabs, config, archived, swept, stats, alarms, archivingTabs,
                  sweepInProgress, schema_version, topicPeriod, inst, resched, restarts,
                  userEvents, hist >>
  /\ BootUnchanged

\* the topic grouping controls of the settings page
TopicSettings ==
  { [enableTopicGrouping |-> FALSE, topicGroupingIntervalMinutes |-> 120,
     topicGroupingOvernightOnly |-> FALSE],
    [enableTopicGrouping |-> TRUE, topicGroupingIntervalMinutes |-> 120,
     topicGroupingOvernightOnly |-> FALSE],
    [enableTopicGrouping |-> TRUE, topicGroupingIntervalMinutes |-> 60,
     topicGroupingOvernightOnly |-> FALSE],
    [enableTopicGrouping |-> TRUE, topicGroupingIntervalMinutes |-> 120,
     topicGroupingOvernightOnly |-> TRUE] }

SettingsEvent ==
  /\ hist.installed
  /\ userEvents < MaxSettingsEvents
  /\ userEvents' = userEvents + 1

\* saveConfig of the settings page: the config is stored and rescheduleTopicGrouping
\* is sent
saveConfig(ts) ==
  /\ SettingsEvent
  /\ config' = [config EXCEPT !.enableTopicGrouping = ts.enableTopicGrouping,
                              !.topicGroupingIntervalMinutes = ts.topicGroupingIntervalMinutes,
                              !.topicGroupingOvernightOnly = ts.topicGroupingOvernightOnly]
  /\ resched' = "sent"
  /\ UNCHANGED << tabs, archived, swept, stats, alarms, archivingTabs, sweepInProgress,
                  schema_version, topicPeriod, listeners, inst, restarts, hist >>
  /\ BootUnchanged

\* the message reaches runtime.onMessage of the service worker (which the message
\* has woken if none was running): scheduleTopicGroupingAlarm starts and awaits
\* the config
RescheduleMessage ==
  /\ resched = "sent"
  /\ "runtime.onMessage" \in listeners
  /\ resched' = "get"
  /\ UNCHANGED << tabs, config, archived, swept, stats, alarms, archivingTabs,
                  sweepInProgress, schema_version, topicPeriod, listeners, inst, restarts,
                  userEvents, hist >>
  /\ BootUnchanged

\* the await of scheduleTopicGroupingAlarm returns: { ok: true } is sent back
ReschedGet ==
  /\ resched = "get"
  /\ alarms' = ScheduledAlarms(alarms)
  /\ topicPeriod' = ScheduledPeriod
  /\ resched' = "done"
  /\ UNCHANGED << tabs, config, archived, swept, stats, archivingTabs, sweepInProgress,
                  schema_version, listeners, inst, restarts, userEvents, hist >>
  /\ BootUnchanged

\* "Clear Selected" of the settings page with the config chosen: the config is
\* removed and { aiActivated } stored in its place, no message is sent.  Every
\* field the service worker reads is undefined and read as its default
ClearConfig ==
  /\ SettingsEvent
  /\ config' = DEFAULT_CONFIG
  /\ UNCHANGED << tabs, archived, swept, stats, alarms, archivingTabs, sweepInProgress,
                  schema_version, topicPeriod, listeners, inst, resched, restarts, hist >>
  /\ BootUnchanged

\* the Zeroize button of the settings page: chrome.storage.local.clear()
Zeroize ==
  /\ SettingsEvent
  /\ schema_version' = 0
  /\ config' = DEFAULT_CONFIG
  /\ archived' = <<>>
  /\ swept' = <<>>
  /\ stats' = DEFAULT_STATS
  /\ UNCHANGED << tabs, alarms, archivingTabs, sweepInProgress, topicPeriod, listeners,
                  inst, resched, restarts, hist >>
  /\ BootUnchanged

BootStep ==
  \/ InstallEvent
  \/ \E reason \in RestartReasons : UpdateEvent(reason)
  \/ InstSet
  \/ InstSchema
  \/ InstReset
  \/ InstSched
  \/ WorkerStops
  \/ BrowserRestarts
  \/ WorkerStarts

SettingsStep ==
  \/ \E ts \in TopicSettings : saveConfig(ts)
  \/ RescheduleMessage
  \/ ReschedGet
  \/ ClearConfig
  \/ Zeroize

UserStep ==
  \/ \E t \in TabIds : KeepResponse(t)
  \/ \E t \in TabIds : SnoozeResponse(t)
  \/ \E t \in TabIds : UserTouchesTab(t)
  \/ \E t \in TabIds : UserPinsTab(t)
  \/ \E t \in TabIds : TabStartsAudio(t)
  \/ \E t \in TabIds : UserClosesTab(t)
  \/ \E w \in WhitelistChoices : SaveWhitelist(w)

TimerStep ==
  \/ \E t \in TabIds : SnoozeAlarmFires(t)
  \/ BadgeClearAlarm
  \/ Tick

\* the graceful exit: two http(s) tabs, the idle check and the nuclear archive
Init == InitWith(SubSeq(InitialTabs, 1, 2))

Next ==
  \/ \E p \in Procs : ArchiveStep(p)
  \/ UserStep
  \/ TimerStep
  \/ Restart

Spec == Init /\ [][Next]_vars

\* the graceful exit with store calls that may reject, the "Keep Open" button, and
\* tabs that the user closes
NextArchiveFail ==
  \/ \E p \in Procs : ArchiveStep(p)
  \/ \E p \in Procs : RunStoreFails(p)
  \/ \E t \in TabIds : KeepResponse(t)
  \/ \E t \in TabIds : UserClosesTab(t)
  \/ Tick
  \/ Restart

SpecArchiveFail == Init /\ [][NextArchiveFail]_vars

\* the clean slate: three tabs of one registrable domain, the tab-settled listener
GroupTabsInit ==
  << Tab(Url("https:", <<"a", "example", "com">>), <<"a">>, "complete", 1),
     Tab(Url("https:", <<"b", "example", "com">>), <<"b">>, "complete", 1),
     Tab(Url("https:", <<"example", "com">>), <<"example">>, "complete", 1) >>

InitGroup == InitWith(GroupTabsInit)

GroupUserStep ==
  \/ \E t \in TabIds : UserPinsTab(t)
  \/ \E t \in TabIds : TabStartsAudio(t)
  \/ \E t \in TabIds : UserClosesTab(t)
  \/ \E t \in TabIds, u \in NavTargets : UserNavigates(t, u)
  \/ \E w \in WhitelistChoices : SaveWhitelist(w)

NextGroup ==
  \/ \E p \in Procs : SettleStep(p)
  \/ GroupUserStep
  \/ Restart

SpecGroup == InitGroup /\ [][NextGroup]_vars

\* the clean slate with a fourth tab of the same registrable domain
InitGroupFour ==
  InitWith(Append(GroupTabsInit,
                  Tab(Url("https:", <<"c", "example", "com">>), <<"c">>, "complete", 1)))

SpecGroupFour == InitGroupFour /\ [][NextGroup]_vars

\* topic grouping switched on in the settings, four tabs none of which is grouped
InitTopic ==
  InitWithConfig(Append(GroupTabsInit,
                        Tab(Url("https:", <<"news", "site", "org">>), <<"daily", "news">>,
                            "complete", 1)),
                 [DEFAULT_CONFIG EXCEPT !.enableTopicGrouping = TRUE])

NextTopic ==
  \/ TopicStep
  \/ GroupUserStep
  \/ Restart

SpecTopic == InitTopic /\ [][NextTopic]_vars

\* topic grouping next to one invocation of the tab-settled listener at a time
NextTopicSettle ==
  \/ TopicStep
  \/ SettleStep(1)

SpecTopicSettle == InitTopic /\ [][NextTopicSettle]_vars

\* the idle check alone, 25 hours after the tabs were last touched: a tab of
\* news.site.org, for whose pages the on-device model is not available, next to a
\* tab that the run passes over (pinned, audible, not a web page, touched less than
\* 24 hours ago, whitelisted or snoozed)
PassedOver ==
  { [tab |-> [InitialTabs[1] EXCEPT !.pinned = TRUE], whitelist |-> {}, snoozed |-> FALSE],
    [tab |-> [InitialTabs[1] EXCEPT !.audible = TRUE], whitelist |-> {}, snoozed |-> FALSE],
    [tab |-> InitialTabs[3], whitelist |-> {}, snoozed |-> FALSE],
    [tab |-> [InitialTabs[1] EXCEPT !.lastAccessed = ClockPoints[2]], whitelist |-> {},
     snoozed |-> FALSE],
    [tab |-> [InitialTabs[1] EXCEPT !.lastAccessed = ClockPoints[3]], whitelist |-> {},
     snoozed |-> FALSE],
    [tab |-> InitialTabs[1], whitelist |-> {<<"example", "com">>}, snoozed |-> FALSE],
    [tab |-> InitialTabs[1], whitelist |-> {}, snoozed |-> TRUE] }

InitIdleOne ==
  \E x \in PassedOver, first \in BOOLEAN :
    /\ tabs = IF first THEN << InitialTabs[2], x.tab >> ELSE << x.tab, InitialTabs[2] >>
    /\ clock = ClockPoints[3]
    /\ config = [DEFAULT_CONFIG EXCEPT !.whitelist = x.whitelist]
    /\ archived = <<>>
    /\ swept = <<>>
    /\ stats = DEFAULT_STATS
    /\ alarms = {SWEEP_ALARM_NAME, IDLE_CHECK_ALARM}
                \cup (IF x.snoozed THEN {SnoozeAlarm(IF first THEN 2 ELSE 1)} ELSE {})
    /\ topicPeriod = 0
    /\ schema_version = 1
    /\ listeners = TopLevelListeners
    /\ inst = NoInst
    /\ resched = "done"
    /\ badge = 0
    /\ archivingTabs = {}
    /\ sweepInProgress = FALSE
    /\ runs = [p \in Procs |-> NoRun]
    /\ sweep = NoSweep
    /\ groups = [g \in {} |-> NoGroup]
    /\ nextGroupId = 1
    /\ settles = [p \in Procs |-> NoSettle]
    /\ topic = NoTopic
    /\ restarts = 0
    /\ userEvents = 0
    /\ hist = NoHist

\* the steps of runIdleTabCheck
NextIdleOne ==
  \/ IdleCheckAlarm(1)
  \/ RunReadConfig(1)
  \/ RunQueryTabs(1)
  \/ RunWhitelist(1)
  \/ RunSnoozed(1)
  \/ RunTabGet(1)
  \/ RunSummarize(1)
  \/ RunReadStore(1)
  \/ RunWriteStore(1)
  \/ RunCloseTab(1)

SpecIdleOne == InitIdleOne /\ [][NextIdleOne]_vars

\* a new profile: nothing is stored, no alarm is pending, no service worker runs
InitBoot ==
  /\ tabs = SubSeq(InitialTabs, 1, 2)
  /\ clock = ClockPoints[1]
  /\ config = DEFAULT_CONFIG
  /\ archived = <<>>
  /\ swept = <<>>
  /\ stats = DEFAULT_STATS
  /\ alarms = {}
  /\ topicPeriod = 0
  /\ schema_version = 0
  /\ listeners = {}
  /\ inst = NoInst
  /\ resched = "done"
  /\ badge = 0
  /\ archivingTabs = {}
  /\ sweepInProgress = FALSE
  /\ runs = [p \in Procs |-> NoRun]
  /\ sweep = NoSweep
  /\ groups = [g \in {} |-> NoGroup]
  /\ nextGroupId = 1
  /\ settles = [p \in Procs |-> NoSettle]
  /\ topic = NoTopic
  /\ restarts = 0
  /\ userEvents = 0
  /\ hist = [NoHist EXCEPT !.installed = FALSE]

NextBoot ==
  \/ BootStep
  \/ SettingsStep

SpecBoot == InitBoot /\ [][NextBoot]_vars

\* the router alone
NextRouter == \E e \in RouterEvents : Dispatch(e)

SpecRouter == Init /\ [][NextRouter]_vars

\* the dead end sweeper
InitSweep == InitWith(InitialTabs)

NextSweep ==
  \/ SweepStep
  \/ UserStep
  \/ TimerStep
  \/ Restart

SpecSweep == InitSweep /\ [][NextSweep]_vars

\* the dead end sweeper, with a clear-sweep-badge alarm that fires once pending
SpecSweepLive == SpecSweep /\ WF_vars(BadgeClearAlarm)

\* the dead end sweeper with store calls that may reject
NextSweepFail ==
  \/ NextSweep
  \/ SweepFailStep

SpecSweepFail == InitSweep /\ [][NextSweepFail]_vars

\* the dead end sweeper and the graceful exit in one service worker: the alarms of
\* both fire, and the popup sends nuclearArchive
NextOverlap ==
  \/ SweepStep
  \/ \E p \in Procs : ArchiveStep(p)
  \/ Tick

SpecOverlap == Init /\ [][NextOverlap]_vars

\* ------------------------------------------------------- properties
\* what a step does to a tab
ArchiveWrites(t) ==
  \E p \in Procs : /\ runs[p].pc = "write"
                   /\ Head(runs[p].todo).id = t
                   /\ runs'[p].pc = "close"

ArchiveCloses(t) ==
  /\ tabs[t].open
  /\ ~tabs'[t].open
  /\ \E p \in Procs : /\ runs[p].pc = "close"
                      /\ Head(runs[p].todo).id = t
                      /\ runs'[p] # runs[p]

SweepWrites(t) ==
  /\ sweep.pc = "write"
  /\ Head(sweep.todo).id = t
  /\ sweep'.pc = "close"

SweepCloses(t) ==
  /\ tabs[t].open
  /\ ~tabs'[t].open
  /\ sweep.pc = "close"
  /\ Head(sweep.todo).id = t
  /\ sweep' # sweep

Untouched(t) ==
  ~ArchiveWrites(t) /\ ~ArchiveCloses(t) /\ ~SweepWrites(t) /\ ~SweepCloses(t)

\* the idle check writes the entry of tab t, or closes it
IdleCheckArchives(t) ==
  \E p \in Procs : /\ runs[p].kind = "idle"
                   /\ runs[p].pc \in {"write", "close"}
                   /\ Head(runs[p].todo).id = t
                   /\ runs'[p] # runs[p]
                   /\ runs[p].pc = "close" => tabs[t].open /\ ~tabs'[t].open

\* the step puts tab t into a group
GroupAdds(t) == tabs'[t].groupId # -1 /\ tabs'[t].groupId # tabs[t].groupId

HasArchivedEntry(t) == \E i \in DOMAIN archived : archived[i].url = tabs[t].url

HasSweptEntry(t) == \E i \in DOMAIN swept : swept[i].url = tabs[t].url

IsPrefix(s, t) == Len(s) <= Len(t) /\ \A i \in DOMAIN s : t[i] = s[i]

\* C1: archiveTab requests the close of a tab only after its write of the
\* ArchivedEntry and of the incremented stats has landed in the store: a run that
\* is about to close a tab has written the tab's entry, every tab archival has
\* closed had its entry written before, and once an entry was written the stored
\* stats count it
C1_WriteBeforeClose ==
  /\ \A p \in Procs : runs[p].pc = "close" => Head(runs[p].todo).id \in hist.archWritten
  /\ hist.archClosed \subseteq hist.archWritten
  /\ hist.archWritten # {} => stats.tabsTidiedThisWeek > 0 /\ archived # <<>>

\* a tab that archival closed, its entry in the store
C1_Witness ==
  \E t \in TabIds : t \in hist.archClosed /\ ~tabs[t].open /\ HasArchivedEntry(t)

\* C2: archived[] and swept[] are append-only: no step of any handler drops or
\* changes an entry that is in the store
C2_AppendOnly ==
  [][IsPrefix(archived, archived') /\ IsPrefix(swept, swept')]_vars

\* C3: read-modify-write sequences on a store key are serialized: while a handler
\* is between its read of archived/swept and stats and its write-back, the store
\* still holds what it read
C3_Serialized ==
  /\ \A p \in Procs :
       runs[p].pc = "write" => archived = runs[p].data /\ stats = runs[p].dstats
  /\ sweep.pc = "write" => swept = sweep.data /\ stats = sweep.dstats

\* C4: no sweep, idle-check or nuclear-archive run closes a tab that is pinned or
\* audible, or writes a SweptEntry or ArchivedEntry for it
C4_ProtectedUntouched ==
  [][\A t \in TabIds : isProtected(tabs[t]) => Untouched(t)]_vars

\* C5: neither the tab-settled listener nor evaluateAutoGroup puts a tab that is
\* pinned or audible into a group, be it the triggering tab or a tab of the same
\* GroupingKey
C5_ProtectedNeverGrouped ==
  [][\A t \in TabIds : isProtected(tabs[t]) => ~GroupAdds(t)]_vars

\* C6: no step groups a tab whose GroupingKey is in config.whitelist, closes it,
\* or writes an entry for it
C6_WhitelistedUntouched ==
  [][\A t \in TabIds : isDomainWhitelisted(getRootDomain(tabs[t].url))
                          => Untouched(t) /\ ~GroupAdds(t)]_vars

\* C7: within one process lifetime at most one ArchivedEntry is written for a tab
C7_OneEntryPerTab ==
  [][\A t \in TabIds : restarts = 0 /\ ArchiveWrites(t) => t \notin hist.archWritten]_vars

\* C8: while the alarm snooze-<tabId> exists, no run writes an ArchivedEntry for
\* the tab or closes it
C8_SnoozedUntouched ==
  [][\A t \in TabIds : isTabSnoozed(t) => ~ArchiveWrites(t) /\ ~ArchiveCloses(t)]_vars

\* C9: after a "keep" response for a tab that is being archived the tab is out of
\* the in-flight set, and no idle check, the current one or a later one, writes
\* its entry or closes it until the user has touched the tab again
C9_KeptStaysOpen ==
  [][\A t \in TabIds : /\ t \in hist.kept => ~IdleCheckArchives(t)
                       /\ t \in hist.kept' \ hist.kept => t \notin archivingTabs']_vars

\* C10: sweepTab closes a tab only after its SweptEntry and the incremented stats
\* are in the store: a sweep that is about to close a tab, and every tab the
\* sweeper has closed, has its entry in swept[], also after a termination between
\* the write and the close
C10_SweptLoggedBeforeClose ==
  /\ sweep.pc = "close" => HasSweptEntry(Head(sweep.todo).id)
  /\ \A t \in hist.sweptClosed : HasSweptEntry(t)

\* a tab the sweeper closed, logged
C10_Witness ==
  \E t \in TabIds : t \in hist.sweptClosed /\ ~tabs[t].open /\ HasSweptEntry(t)

\* C11: the stored stats counters never decrease: no step of a sweep or an
\* archival lowers stats.tabsTidiedThisWeek or stats.ramSavedEstimate
C11_StatsMonotone ==
  [][/\ stats'.tabsTidiedThisWeek >= stats.tabsTidiedThisWeek
     /\ stats'.ramSavedEstimate >= stats.ramSavedEstimate]_vars

\* C16: a SweptEntry is created once per swept tab: no sweep writes an entry for a
\* tab that already has one, also when the sweep is repeated after a termination
C16_OneSweptEntryPerTab ==
  [][\A t \in TabIds : SweepWrites(t) => t \notin hist.sweptWritten]_vars

\* C15: the count handleNuclearArchive sends back is the number of tabs the run
\* archived
C15_CountIsArchived == hist.response[1] = hist.response[2]

\* C19: the idle check writes a tab's entry or closes the tab only after a Stay of
\* Execution notification was shown for it
C19_ReprieveFirst ==
  [][\A t \in TabIds : IdleCheckArchives(t) => t \in hist.prompted]_vars

EntriesOf(t) == { i \in DOMAIN archived : archived[i].url = tabs[t].url }

\* C20: a termination of the service worker leaves every stored entry in place
\* and empties the in-flight set, so a tab whose entry was written before the
\* termination is open to selection by the next run
C20_RestartForgetsInFlight ==
  [][restarts' # restarts => /\ archived' = archived
                             /\ stats' = stats
                             /\ archivingTabs' = {}]_vars

\* a tab whose entry was written before the termination and that a run after it
\* has written again: two entries of the tab are stored
C20_Witness ==
  \E t \in TabIds, p \in Procs : /\ t \in hist.prevWritten
                                 /\ restarts > 0
                                 /\ runs[p].pc = "close"
                                 /\ Head(runs[p].todo).id = t
                                 /\ Cardinality(EntriesOf(t)) >= 2

\* C18: a tab whose hostname is an entry of config.whitelist is never grouped,
\* swept or archived
C18_WhitelistedHostUntouched ==
  [][\A t \in TabIds : tabs[t].url.hostname \in config.whitelist
                          => Untouched(t) /\ ~GroupAdds(t)]_vars

\* C14: a sweep ends only when no tab of its allTabs is left to be looked at: a
\* failure while one tab is handled does not end the run before the tabs after it
\* were processed; and once a run has ended the guard is clear, so the next
\* firing of the alarm starts a run
C14_FailureIsolated ==
  /\ [][(sweep # NoSweep /\ sweep' = NoSweep /\ restarts' = restarts)
          => (sweep.todo = <<>> \/ SkipUnswept(Tail(sweep.todo), clock) = <<>>)]_vars
  /\ [](sweep = NoSweep => ~sweepInProgress)

\* the live groups of a GroupingKey: those titled UPPERCASE(key)
GroupsOfKey(key) == { g \in DOMAIN groups : groups[g].title = toUpperCase(key) }

\* C12: at every moment at most one live group is titled UPPERCASE(key), for every
\* GroupingKey of an open tab
C12_OneGroupPerKey ==
  \A t \in TabIds : Cardinality(GroupsOfKey(getRootDomain(tabs[t].url))) <= 1

\* the open unpinned tabs of the registrable domain of tab t
KeyTabs(t) ==
  { u \in TabIds : /\ tabs[u].open /\ ~tabs[u].pinned
                   /\ getRootDomain(tabs[u].url) = getRootDomain(tabs[t].url) }

\* the key of tab t is one the coordinator groups: it has a domain, is not
\* whitelisted and has groupThreshold tabs
MeetsThreshold(t) ==
  /\ ~tabs[t].pinned
  /\ getRootDomain(tabs[t].url) # NoDomain
  /\ ~isDomainWhitelisted(getRootDomain(tabs[t].url))
  /\ Cardinality(KeyTabs(t)) >= config.groupThreshold

\* C17: once the tab-settled handler has run to its end for a tab, with nothing else
\* happening, a further run for that tab on the unchanged tab set moves no tab into
\* or out of a group and creates no group, and a key that met the threshold has
\* exactly one group, holding all its tabs
C17_Idempotent ==
  /\ [][(hist.settled # 0 /\ hist'.settled # 0)
          => (tabs' = tabs /\ groups' = groups /\ nextGroupId' = nextGroupId)]_vars
  /\ [](hist.settled # 0 /\ MeetsThreshold(hist.settled)
          => \E g \in DOMAIN groups :
                /\ GroupsOfKey(getRootDomain(tabs[hist.settled].url)) = {g}
                /\ \A u \in KeyTabs(hist.settled) : tabs[u].groupId = g)

\* C17 witness: the second run for the tab is at its lookup and the group is there
C17_Witness ==
  \E p \in Procs :
     /\ hist.settled # 0
     /\ settles[p].pc = "find"
     /\ settles[p].tabId = hist.settled
     /\ GroupsOfKey(getRootDomain(tabs[hist.settled].url)) # {}

\* C13: no failure of an AI call and no malformed answer makes runTopicGrouping
\* reject with nothing to catch the rejection
C13_NoUnhandledFailure == ~hist.unhandled

\* the step is the return of chrome.tabs.get in run p, for a tab that is gone
TabGoneAtGet(p) ==
  /\ runs[p].pc = "get"
  /\ ~tabs[Head(runs[p].todo).id].open
  /\ runs'[p] # runs[p]
  /\ restarts' = restarts

\* C21: when the tab is gone as its archival begins, nothing is written to archived
\* or stats, no notification is created, and the run goes on with the next tab of
\* its list (or ends when there is none)
C21_GoneTabSkipped ==
  [][\A p \in Procs :
       TabGoneAtGet(p) =>
         LET r == runs[p]
             rest == SkipProtected(Tail(r.todo), archivingTabs \ {Head(r.todo).id})
         IN  /\ archived' = archived
             /\ stats' = stats
             /\ hist'.notified = hist.notified
             /\ hist'.archWritten = hist.archWritten
             /\ IF rest = <<>> THEN runs'[p] = NoRun
                ELSE runs'[p].todo = rest /\ runs'[p].pc = "wl"]_vars

\* C21 witness: a nuclear run has passed over a tab that was gone, wrote nothing
\* for it, and is at the whitelist check of the next tab
C21_Witness ==
  \E p \in Procs :
     /\ runs[p].kind = "nuclear"
     /\ runs[p].pc = "wl"
     /\ runs[p].count > runs[p].wrote
     /\ \E t \in TabIds : ~tabs[t].open /\ t \notin hist.archWritten

\* the step is the return of chrome.tabs.group in runTopicGrouping and puts tab t
\* into the new group
TopicGroupAdds(t) ==
  /\ topic.pc = "group"
  /\ topic' # topic
  /\ tabs'[t].groupId # tabs[t].groupId
  /\ tabs'[t].groupId = nextGroupId

\* C22: a tab that runTopicGrouping puts into a topic group is open and ungrouped
\* at that moment
C22_OnlyUngroupedJoinTopic ==
  [][\A t \in TabIds : TopicGroupAdds(t) => tabs[t].open /\ tabs[t].groupId = -1]_vars

\* the step ends the handler p started for a tab that sat in a stale group
StaleHandlerEnds(p) ==
  /\ settles[p].stale # -1
  /\ settles'[p] = NoSettle
  /\ restarts' = restarts

\* C23: when the handler of a tab that settled inside a group whose title is not
\* the upper-cased domain of the tab comes to its end, the tab is not a member of
\* that group (unless the group's title has come to be that of the tab's domain)
C23_LeavesStaleGroup ==
  [][\A p \in Procs :
       StaleHandlerEnds(p) =>
         LET t == settles[p].tabId
             g == settles[p].stale
         IN  \/ ~tabs'[t].open
             \/ tabs'[t].groupId # g
             \/ /\ g \in DOMAIN groups'
                /\ groups'[g].title = toUpperCase(getRootDomain(tabs'[t].url))]_vars

\* the titles runTopicGrouping gives its groups, for the answers of the model
TopicTitles ==
  UNION { { toUpperCase(a.clusters[k].title) :
              k \in { j \in DOMAIN a.clusters : a.clusters[j].titleIsString } } :
          a \in AiAnswers } \ {<<>>}

InTopicGroup(t) ==
  /\ tabs[t].groupId \in DOMAIN groups
  /\ groups[tabs[t].groupId].title \in TopicTitles

\* C24: no step of the tab-settled listener takes a tab out of a topic group, as
\* long as the tab stays open on the same page
C24_TopicGroupKept ==
  [][\A t \in TabIds :
       (/\ InTopicGroup(t)
        /\ settles' # settles
        /\ tabs'[t].open
        /\ tabs'[t].url = tabs[t].url) => tabs'[t].groupId = tabs[t].groupId]_vars

\* the step is the return of a chrome.tabs.group of runTopicGrouping that made a
\* group
TopicGroupCreated ==
  /\ topic.pc = "group"
  /\ topic' # topic
  /\ nextGroupId' # nextGroupId

\* C25: a group runTopicGrouping creates holds at least two tabs when it is created
C25_TopicGroupHasTwo ==
  [][TopicGroupCreated =>
       Cardinality({ t \in TabIds : tabs'[t].groupId = nextGroupId }) >= 2]_vars

\* a cluster entry with a title, an indices array and two members or more
WellFormed(cluster) ==
  /\ cluster.kind = "object"
  /\ cluster.title # <<>>
  /\ cluster.indicesIsArray
  /\ Len(cluster.indices) >= 2

\* C26: when the answer of the model arrives, the loop over its clusters does what
\* it would do for the answer with every cluster entry taken out that has no
\* title, no indices array or fewer than two members
C26_MalformedDiscardedAlone ==
  topic.pc = "ai" =>
    \A a \in { b \in AiAnswers : b.kind = "json" /\ b.clustersIsArray } :
       NextCluster(a.clusters, topic.candidates)
         = NextCluster(SelectSeq(a.clusters, WellFormed), topic.candidates)

\* the step is the firing of the snooze alarm of tab t
SnoozeExpires(t) == SnoozeAlarm(t) \in alarms /\ SnoozeAlarm(t) \notin alarms'

\* the step is the return of isTabSnoozed in the idle check p, for a tab whose
\* snooze alarm has fired and is gone, and which the run found idle
ExpiredAtSnoozeCheck(p) ==
  /\ runs[p].kind = "idle"
  /\ runs[p].pc = "snooze"
  /\ runs'[p] # runs[p]
  /\ restarts' = restarts
  /\ Head(runs[p].todo).id \in hist.expired
  /\ SnoozeAlarm(Head(runs[p].todo).id) \notin alarms
  /\ Head(runs[p].todo).idle

\* C27: the firing of a snooze alarm changes no tab, no group and nothing in the
\* store, and an idle check that comes to the snooze test of that tab afterwards,
\* having found it idle, goes on to archive it
C27_SnoozeExpiryByAbsence ==
  [][/\ \A t \in TabIds :
          SnoozeExpires(t) =>
            /\ tabs' = tabs /\ groups' = groups /\ config' = config
            /\ archived' = archived /\ swept' = swept /\ stats' = stats
     /\ \A p \in Procs :
          ExpiredAtSnoozeCheck(p) =>
            /\ runs'[p].pc = "get"
            /\ Head(runs[p].todo).id \in archivingTabs']_vars

\* C27 witness: an idle check has written the entry of a tab whose snooze alarm
\* had fired and is about to close it
C27_Witness ==
  \E p \in Procs :
     /\ runs[p].kind = "idle"
     /\ runs[p].pc = "close"
     /\ Head(runs[p].todo).id \in hist.expired
     /\ Head(runs[p].todo).id \in hist.archWritten

\* C28: while a count is on the badge the clear-sweep-badge alarm is pending, and
\* the badge is cleared in the end
C28_BadgeCleared ==
  /\ [](badge > 0 => BADGE_CLEAR_ALARM \in alarms)
  /\ (badge > 0 ~> badge = 0)

\* C28 witness: a run has set the badge while the alarm of an earlier badge was
\* pending, and the one alarm is pending now
C28_Witness == hist.overwrote /\ badge > 0 /\ BADGE_CLEAR_ALARM \in alarms

\* C29: the count a sweep run hands to updateSweepBadge is the number of entries
\* that run wrote to swept
C29_BadgeCountsWritten == hist.sweepDone[1] = hist.sweepDone[2]

\* C30: every alarm that fired and every message that arrived started exactly one
\* handler
C30_ExactlyOneHandler ==
  \A i \in DOMAIN hist.routed : Cardinality(hist.routed[i][2]) = 1

\* a step in which a new service worker runs the top level of background.js
ProcessStarts == listeners = {} /\ listeners' # {}

\* C31: every running service worker has all the listeners of the top level
\* attached; once the extension is installed, whenever a service worker runs and
\* no onInstalled listener is in progress, the sweep and the idle-check alarm are
\* pending; and a step that attaches the listeners changes neither the alarms nor
\* anything stored nor the tabs, so that attaching them again duplicates nothing
C31_RegisteredOnEveryStart ==
  /\ [](listeners # {} => listeners = TopLevelListeners)
  /\ [](hist.installed /\ listeners # {} /\ inst = NoInst
          => {SWEEP_ALARM_NAME, IDLE_CHECK_ALARM} \subseteq alarms)
  /\ [][ProcessStarts => UNCHANGED << tabs, config, archived, swept, stats, alarms,
                                      topicPeriod, schema_version, badge >>]_vars

\* C32: once the settings page has changed the configuration and no
\* scheduleTopicGroupingAlarm is in progress or about to start (and the service
\* worker has not been ended since the install), the topic-grouping alarm is
\* pending exactly when the configuration enables topic grouping, and its period
\* is the one the configuration asks for
C32_ScheduleFollowsConfig ==
  userEvents > 0 /\ restarts = 0 /\ resched = "done" /\ inst = NoInst
    => IF config.enableTopicGrouping
       THEN TOPIC_GROUPING_ALARM \in alarms /\ topicPeriod = TopicPeriodOf(config)
       ELSE TOPIC_GROUPING_ALARM \notin alarms

\* a step of the tab-settled listener (evaluateAutoGroup included)
SettleActs == \E p \in Procs : settles'[p] # settles[p]

\* C33: no step of the tab-settled listener collapses a group: a group that is new
\* or expanded before the step is expanded after it
C33_GroupingLeavesExpanded ==
  [][SettleActs => \A g \in DOMAIN groups' :
                     (g \notin DOMAIN groups \/ ~groups[g].collapsed)
                       => ~groups'[g].collapsed]_vars

\* the three tabs of the scenario are open, not pinned, at the three hostnames, with
\* the threshold at 3, and nothing but tab-settled handlers has run
ThreeExampleTabs ==
  /\ userEvents = 0 /\ restarts = 0
  /\ config.groupThreshold = 3
  /\ { tabs[t].url.hostname : t \in TabIds } =
       { <<"a", "example", "com">>, <<"b", "example", "com">>, <<"example", "com">> }
  /\ \A t \in TabIds : tabs[t].open /\ ~tabs[t].pinned

\* no tab-settled handler is in progress and at least one has run to its end
SettledAll ==
  /\ \A p \in Procs : settles[p] = NoSettle
  /\ hist.settled # 0 \/ nextGroupId > 1

NewsTabs == { t \in TabIds : tabs[t].url.hostname = <<"news", "site", "org">> }

\* C35: every step that ends an idle-check run over the one eligible tab, idle for
\* 25 hours with idleThresholdHours 24 and no on-device model for its page, leaves
\* exactly one ArchivedEntry, that of the tab with summaryType "fallback",
\* stats.tabsTidiedThisWeek at 1, the tab closed and the other tab open
C35_IdleTabArchivedOnce ==
  [][runs[1] # NoRun /\ runs'[1] = NoRun
       => /\ Len(archived') = 1
          /\ archived'[1].summaryType = "fallback"
          /\ archived'[1].url.hostname = <<"news", "site", "org">>
          /\ stats'.tabsTidiedThisWeek = 1
          /\ \A t \in TabIds : tabs'[t].open <=> t \notin NewsTabs]_vars

\* C35 witness: the run has ended, with the entry written and the tab closed
C35_Witness ==
  /\ runs[1] = NoRun
  /\ config.idleThresholdHours = 24
  /\ Len(archived) = 1 /\ archived[1].summaryType = "fallback"
  /\ stats.tabsTidiedThisWeek = 1
  /\ \E t \in NewsTabs : ~tabs[t].open /\ clock - tabs[t].lastAccessed = 25

\* a step in which a service worker starts: a new one after none was running, or
\* the one that replaces the old at an update
StartsUp == ProcessStarts \/ (restarts' > restarts /\ listeners' # {})

\* C36: a service worker that starts while the stored schema_version is missing
\* begins the default-schema initialization; the initialization leaves
\* schema_version, config, archived, swept and stats at their defaults; and a step
\* of the onInstalled listener taken while a schema_version is stored leaves them
\* all unchanged
C36_SchemaRepairedAtStartup ==
  /\ [][StartsUp /\ schema_version = 0 => inst'.pc \in {"set", "schema", "reset"}]_vars
  /\ [][inst.pc \in {"set", "reset"} /\ inst'.pc = "sched" /\ restarts' = restarts
          => /\ schema_version' = 1 /\ config' = DEFAULT_CONFIG
             /\ archived' = <<>> /\ swept' = <<>> /\ stats' = DEFAULT_STATS]_vars
  /\ [][inst' # inst /\ schema_version = 1
          => UNCHANGED << schema_version, config, archived, swept, stats >>]_vars

\* invocation p is inside archiveTab(tab t), between archivingTabs.add and the finally
Archiving(p, t) ==
  /\ runs[p].pc \in {"get", "ai", "read", "write", "close"}
  /\ Head(runs[p].todo).id = t

\* the same of the state after the step
ArchivingNext(p, t) ==
  /\ runs'[p].pc \in {"get", "ai", "read", "write", "close"}
  /\ Head(runs'[p].todo).id = t

\* C37: a tab id is in archivingTabs only while an archiveTab for that tab is
\* executing; the step in which an archiveTab ends, by success, by a rejected store
\* call or because the tab is gone, leaves the id out of the set; and the set is
\* empty whenever no runIdleTabCheck and no handleNuclearArchive is executing
C37_InFlightOnlyWhileArchiving ==
  /\ [](\A t \in archivingTabs : \E p \in Procs : Archiving(p, t))
  /\ [][\A p \in Procs, t \in TabIds :
          Archiving(p, t) /\ ~ArchivingNext(p, t) => t \notin archivingTabs']_vars
  /\ []((\A p \in Procs : runs[p] = NoRun) => archivingTabs = {})

\* C37 witness: a store call of an archiveTab is about to return or reject, the tab
\* is in the set, and an earlier archiveTab of the same run has ended
C37_Witness ==
  \E p \in Procs :
     /\ runs[p].pc = "write"
     /\ Head(runs[p].todo).id \in archivingTabs
     /\ \E t \in TabIds : t # Head(runs[p].todo).id /\ t \notin archivingTabs
                          /\ (t \in hist.archClosed \/ ~tabs[t].open)

\* the idle threshold of invocation p: the constant of handleNuclearArchive, or the
\* config's, which no step of the graceful exit changes
RunThreshold(p) ==
  IF runs[p].kind = "nuclear" THEN NUCLEAR_IDLE_HOURS ELSE config.idleThresholdHours

\* the tab as it is now passes the guards of the loop on pinned and audible, and
\* the idle test
EligibleNow(p, t) ==
  ~isProtected(tabs[t]) /\ IsIdle(tabs[t], clock, RunThreshold(p))

\* invocation p writes the ArchivedEntry of the open tab t, or closes it
RunArchives(p, t) ==
  /\ tabs[t].open
  /\ runs[p].pc \in {"write", "close"}
  /\ Head(runs[p].todo).id = t
  /\ \/ runs[p].pc = "write" /\ runs'[p].pc = "close"
     \/ runs[p].pc = "close" /\ ~tabs'[t].open /\ runs'[p] # runs[p]

\* C38: eligibility holds at the moment of the close, not only at the enumeration:
\* a run writes the entry of a tab, or closes it, only if the tab is at that moment
\* not pinned, not audible and idle beyond the run's threshold
C38_EligibleAtClose ==
  [][\A p \in Procs, t \in TabIds : RunArchives(p, t) => EligibleNow(p, t)]_vars

\* C39: a tab is never both swept and archived: no tab has both a SweptEntry and an
\* ArchivedEntry in the store, and no run writes the entry and the incremented
\* stats for a tab that a run of the other kind has written them for
C39_SweptOrArchived ==
  /\ [](\A t \in TabIds : ~(HasSweptEntry(t) /\ HasArchivedEntry(t)))
  /\ [][\A t \in TabIds : /\ ArchiveWrites(t) => t \notin hist.sweptWritten
                          /\ SweepWrites(t) => t \notin hist.archWritten]_vars

\* a step in which runDeadEndSweep passes its guard and starts a run
SweepStarts == sweep' = [NoSweep EXCEPT !.pc = "query"] /\ sweep' # sweep

\* C40: the sweepInProgress flag gives mutual exclusion without deadlock: the flag
\* is set exactly while a run of runDeadEndSweep executes, so it is clear after
\* every run has ended, normally or by a rejected call; a run starts only when no
\* run executes, and it starts with the query of all the tabs
C40_GuardExcludes ==
  /\ [](sweepInProgress <=> sweep # NoSweep)
  /\ [][SweepStarts => sweep = NoSweep /\ ~sweepInProgress /\ sweepInProgress']_vars
  /\ [][sweep # NoSweep /\ sweep' = NoSweep => ~sweepInProgress']_vars

\* C40 witness: a run has ended with a tab swept, and the next firing of the alarm
\* has started a run that is now looking at a tab
C40_Witness ==
  /\ hist.sweepDone[1] > 0
  /\ sweepInProgress
  /\ sweep.pc = "wl"

====
